---- MODULE Spec2Model ----
(***************************************************************************)
(* Verification model of the WatermarkPro watermark composition and        *)
(* coordinate-transform engine.                                            *)
(*                                                                         *)
(* The repository holds two variants of WatermarkEngine:                   *)
(*   "legacy"    - src/js/watermarkEngine.js (anchor presets only)         *)
(*   "transform" - the class listed in src/README.md (transform based,     *)
(*                 the one BatchProcessor drives through                   *)
(*                 generateWatermarkedImageMultiple)                       *)
(* and the interactive compositor of WatermarkApp in src/js/app.js.        *)
(***************************************************************************)
EXTENDS Integers, Sequences, FiniteSets, TLC

VARIABLES
    (* ---- one composite pass over a drawing surface ---- *)
    passKind,   \* "none" | "applyWatermarks" | "renderWatermarksOnCanvas" | "applyWatermark"
    engine,     \* "legacy" | "transform" | "app": the code that renders
    given,      \* the watermark array handed to the compositor
    queue,      \* the array the loop iterates over
    idx,        \* index of the next watermark of queue to render
    pc,         \* "idle" | "loop" | "returned" | "threw" | "hung"
    calls,      \* one record per renderer invocation of the pass, in order
    ctxDepth,   \* depth of the surface's save/restore stack
    (* ---- one call of a geometry function ---- *)
    geoCall,    \* the function called and its arguments
    geoResult,  \* what it returned
    (* ---- the editing session of WatermarkApp ---- *)
    sourceImages,       \* this.sourceImages: size and saved watermark array of each image
    currentImageIndex,  \* this.currentImageIndex (0-based, -1 for none)
    zoom,               \* this.zoom
    canvasBounds,       \* this.canvasBounds
    watermarks,         \* this.watermarks: an array of references into wmHeap
    wmHeap,             \* the watermark objects, by reference
    selectedWatermarkId,\* this.selectedWatermarkId (0 for null)
    watermarkIdCounter, \* this.watermarkIdCounter
    resizeCount,        \* the resize events of the session so far
    textHeap,           \* the settings.text objects, by reference
    watermarkSettings,  \* this.watermarkSettings: the text object it holds
    (* ---- the preview canvas ---- *)
    previewCanvas,      \* what has been painted on it since it was last cleared
    passes,             \* the composite passes in flight
    (* ---- the BatchProcessor ---- *)
    processingQueue,    \* this.processingQueue: the queue items, in order
    settingsHeap,       \* the settings objects, by reference; 1 is the caller's
    isProcessing,       \* this.isProcessing
    shouldStop,         \* this.shouldStop
    results,            \* this.results
    errors,             \* this.errors
    batchPc,            \* "idle" | "loop" | "await" | "finished" | "threw"
    batchIndex,         \* the loop variable i of processQueue (1-based)
    inflight,           \* the item whose processImage is awaited
    itemCounter,        \* the number of queue items created so far
    processQueueError,  \* the message of the Error the last processQueue() threw at once
    (* ---- the TemplateManager and the notifications of the session ---- *)
    templates,          \* this.templates
    clock,              \* the millisecond Date reads
    templateIdCounter,  \* the number of template ids generated so far
    lastSave,           \* the last call of TemplateManager.saveTemplate and its outcome
    notification        \* the last message of showNotification

renderVars == <<passKind, engine, given, queue, idx, pc, calls, ctxDepth>>

geoVars == <<geoCall, geoResult>>

appVars == <<sourceImages, currentImageIndex, zoom, canvasBounds, watermarks, wmHeap,
             selectedWatermarkId, watermarkIdCounter, resizeCount, textHeap,
             watermarkSettings>>

batchVars == <<processingQueue, settingsHeap, isProcessing, shouldStop, results, errors,
               batchPc, batchIndex, inflight, itemCounter, processQueueError>>

templateVars == <<templates, clock, templateIdCounter, lastSave, notification>>

previewVars == <<previewCanvas, passes>>

vars == <<renderVars, geoVars, appVars, batchVars, templateVars, previewVars>>

(***************************************************************************)
(* Bounds                                                                  *)
(***************************************************************************)
MaxWatermarks == 3
MaxZIndex == 3
MaxImages == 2
MaxSessionWatermarks == 2
MaxZoomSteps == 1
MaxQueueItems == 2
MaxTemplateSaves == 3
MaxClock == 1
MaxResizes == 2

(***************************************************************************)
(* Exact arithmetic on JavaScript numbers: a number is a fraction n/d in   *)
(* lowest terms with d > 0.                                                *)
(***************************************************************************)
Abs(n) == IF n < 0 THEN -n ELSE n

RECURSIVE Gcd(_, _)
Gcd(a, b) == IF b = 0 THEN a ELSE Gcd(b, a % b)

Rat(n, d) ==
    LET g == Gcd(Abs(n), Abs(d))
        sg == IF d < 0 THEN -1 ELSE 1 IN
    [n |-> (sg * n) \div g, d |-> (sg * d) \div g]

Num(n) == [n |-> n, d |-> 1]

RAdd(a, b) == Rat(a.n * b.d + b.n * a.d, a.d * b.d)
RSub(a, b) == Rat(a.n * b.d - b.n * a.d, a.d * b.d)
RMul(a, b) == Rat(a.n * b.n, a.d * b.d)
RDiv(a, b) == Rat(a.n * b.d, a.d * b.n)
RLt(a, b) == a.n * b.d < b.n * a.d
RMin(a, b) == IF RLt(b, a) THEN b ELSE a
RMax(a, b) == IF RLt(a, b) THEN b ELSE a
Half(a) == RDiv(a, Num(2))

Box(x, y, w, h) == [x |-> Num(x), y |-> Num(y), width |-> Num(w), height |-> Num(h)]

Size(w, h) == [width |-> Num(w), height |-> Num(h)]

(***************************************************************************)
(* Watermark settings handed to the renderer.                              *)
(*   type      settings.type ("video" stands for any unknown type)        *)
(*   content   settings.text.content ("" is the empty string)             *)
(*   image     settings.image.imageData: "none" (null), "ok" (decodes),   *)
(*             "broken" (the raster fails to decode)                       *)
(*   transform settings.transform: "none" (absent), "plain" (no preview   *)
(*             dimensions), "preview" (with previewCanvasWidth/Height)     *)
(***************************************************************************)
Types == {"text", "image", "combined", "video"}
Contents == {"", "wm"}
ImageStates == {"none", "ok", "broken"}
TransformStates == {"none", "plain", "preview"}
Engines == {"legacy", "transform"}

Settings == [type : Types, content : Contents, image : ImageStates,
             transform : TransformStates]

\* settings of the watermarks of a composite pass
PassSettings ==
    {s \in Settings :
        /\ s.content = "wm"
        /\ s.transform = "preview"
        /\ \/ s.type \in {"text", "video"} /\ s.image = "none"
           \/ s.type = "image" /\ s.image \in {"ok", "broken"}
           \/ s.type = "combined" /\ s.image = "ok"}

Watermark(i, z, s) == [id |-> i, zIndex |-> z, settings |-> s]

(***************************************************************************)
(* Painters.  Each returns the surface operations it issued and how it     *)
(* ended: "returned", "threw" or "hung" (suspended for ever).              *)
(***************************************************************************)
Outcome(ops, how) == [ops |-> ops, how |-> how]

\* src/js/watermarkEngine.js applyTextWatermark
LegacyApplyTextWatermark(s) ==
    IF s.content = ""
    THEN Outcome(<<>>, "returned")
    ELSE Outcome(<<"save", "fillText", "restore">>, "returned")

\* src/README.md applyTextWatermark: ctx.save() comes first; reading
\* actualTransform.x of an absent transform raises a TypeError that the
\* catch block logs and swallows, after the save and before the restore.
TransformApplyTextWatermark(s) ==
    IF s.transform = "none"
    THEN Outcome(<<"save">>, "returned")
    ELSE Outcome(<<"save", "fillText", "restore">>, "returned")

\* an image painter without the guard on image.imageData
LegacyApplyImageWatermarkUnguarded(s) ==
    CASE s.image = "ok"     -> Outcome(<<"save", "drawImage", "restore">>, "returned")
      [] OTHER              -> Outcome(<<"save">>, "threw")

\* src/js/watermarkEngine.js applyImageWatermark: drawImage of an element
\* in the broken state raises, and the catch block rethrows.
LegacyApplyImageWatermark(s) ==
    CASE s.image = "none"   -> Outcome(<<>>, "returned")
      [] s.image = "ok"     -> Outcome(<<"save", "drawImage", "restore">>, "returned")
      [] s.image = "broken" -> Outcome(<<"save">>, "threw")

\* src/README.md applyImageWatermark: awaits img.onload only, so a decode
\* failure leaves the promise pending.
TransformApplyImageWatermark(s) ==
    CASE s.image = "none"   -> Outcome(<<>>, "returned")
      [] s.image = "ok"     -> Outcome(<<"save", "drawImage", "restore">>, "returned")
      [] s.image = "broken" -> Outcome(<<>>, "hung")

applyTextWatermark(e, s) ==
    IF e = "legacy" THEN LegacyApplyTextWatermark(s) ELSE TransformApplyTextWatermark(s)

applyImageWatermark(e, s) ==
    IF e = "legacy" THEN LegacyApplyImageWatermark(s) ELSE TransformApplyImageWatermark(s)

(***************************************************************************)
(* applyWatermark: save, dispatch on settings.type, restore; any exception *)
(* is rethrown as "Failed to apply watermark: <message>".                  *)
(***************************************************************************)
\* the painters run for a type, in order; <<>> with unknown TRUE is the default branch
DispatchCombinedTextOnly(type) ==
    CASE type = "text"     -> <<"text">>
      [] type = "image"    -> <<"image">>
      [] type = "combined" -> <<"text">>
      [] OTHER             -> <<>>

Dispatch(type) ==
    CASE type = "text"     -> <<"text">>
      [] type = "image"    -> <<"image">>
      [] type = "combined" -> <<"text", "image">>
      [] OTHER             -> <<>>

KnownType(type) == type \in {"text", "image", "combined"}

RunPainter(e, p, s) ==
    IF p = "text" THEN applyTextWatermark(e, s) ELSE applyImageWatermark(e, s)

\* runs the painters ps in order until one does not return
RECURSIVE RunPainters(_, _, _)
RunPainters(e, ps, s) ==
    IF ps = <<>>
    THEN [ops |-> <<>>, how |-> "returned", ran |-> <<>>]
    ELSE LET first == RunPainter(e, Head(ps), s) IN
         IF first.how # "returned"
         THEN [ops |-> first.ops, how |-> first.how, ran |-> <<Head(ps)>>]
         ELSE LET rest == RunPainters(e, Tail(ps), s) IN
              [ops |-> first.ops \o rest.ops, how |-> rest.how,
               ran |-> <<Head(ps)>> \o rest.ran]

applyWatermark(e, s) ==
    IF ~KnownType(s.type)
    THEN [ops |-> <<"save">>, how |-> "threw", ran |-> <<>>,
          error |-> <<"Failed to apply watermark:", "Unknown watermark type:", s.type>>]
    ELSE LET r == RunPainters(e, Dispatch(s.type), s) IN
         CASE r.how = "returned" ->
                [ops |-> <<"save">> \o r.ops \o <<"restore">>, how |-> "returned",
                 ran |-> r.ran, error |-> <<>>]
           [] r.how = "threw" ->
                [ops |-> <<"save">> \o r.ops, how |-> "threw", ran |-> r.ran,
                 error |-> <<"Failed to apply watermark:", "Failed to apply image watermark:">>]
           [] r.how = "hung" ->
                [ops |-> <<"save">> \o r.ops, how |-> "hung", ran |-> r.ran,
                 error |-> <<>>]

(***************************************************************************)
(* WatermarkApp.renderSingleWatermark: save, rotate about the box centre,  *)
(* paint by type, restore.  renderTextWatermark and renderImageWatermark   *)
(* save and restore around their paint; renderImageWatermark resolves on   *)
(* onload and on onerror alike.                                            *)
(***************************************************************************)
renderSingleWatermark(s) ==
    CASE s.type = "text" ->
            [ops |-> <<"save", "save", "fillText", "restore", "restore">>,
             how |-> "returned", ran |-> <<"text">>, error |-> <<>>]
      [] s.type = "image" /\ s.image = "ok" ->
            [ops |-> <<"save", "save", "drawImage", "restore", "restore">>,
             how |-> "returned", ran |-> <<"image">>, error |-> <<>>]
      [] s.type = "image" /\ s.image = "broken" ->
            [ops |-> <<"save", "restore">>,
             how |-> "returned", ran |-> <<"image">>, error |-> <<>>]
      [] OTHER ->
            [ops |-> <<"save", "restore">>,
             how |-> "returned", ran |-> <<>>, error |-> <<>>]

Render(e, s) == IF e = "app" THEN renderSingleWatermark(s) ELSE applyWatermark(e, s)

(***************************************************************************)
(* Sorting by zIndex: Array.prototype.sort((a, b) => a.zIndex - b.zIndex), *)
(* a stable sort.                                                          *)
(***************************************************************************)
RECURSIVE InsertByZ(_, _)
InsertByZ(sorted, w) ==
    IF sorted = <<>> THEN <<w>>
    ELSE IF w.zIndex < Head(sorted).zIndex
         THEN <<w>> \o sorted
         ELSE <<Head(sorted)>> \o InsertByZ(Tail(sorted), w)

RECURSIVE SortByZIndex(_)
SortByZIndex(ws) ==
    IF ws = <<>> THEN <<>>
    ELSE InsertByZ(SortByZIndex(SubSeq(ws, 1, Len(ws) - 1)), ws[Len(ws)])

\* the order in which each compositor walks the array it is given
AppOrderUnsorted(ws) == ws

AppOrder(ws) == SortByZIndex(ws)

EngineOrder(ws) == ws

RECURSIVE Count(_, _)
Count(ops, op) ==
    IF ops = <<>> THEN 0
    ELSE (IF Head(ops) = op THEN 1 ELSE 0) + Count(Tail(ops), op)

Range(f) == {f[i] : i \in DOMAIN f}

(***************************************************************************)
(* Actions of a composite pass                                             *)
(***************************************************************************)
\* the array of n watermarks with the given zIndex values and settings;
\* a watermark's id is its place in the array
WatermarkList(n, zs, ss) == [i \in 1..n |-> Watermark(i, zs[i], ss[i])]

\* the state after construction: no pass has started, the editing session is
\* as the constructor of WatermarkApp leaves it, and no geometry function has
\* been called
Init ==
    /\ passKind = "none"
    /\ engine = "legacy"
    /\ given = <<>>
    /\ queue = <<>>
    /\ idx = 1
    /\ pc = "idle"
    /\ calls = <<>>
    /\ ctxDepth = 0
    /\ sourceImages = <<>>
    /\ currentImageIndex = -1
    /\ zoom = Num(1)
    /\ canvasBounds = [width |-> Num(0), height |-> Num(0)]
    /\ watermarks = <<>>
    /\ wmHeap = <<>>
    /\ selectedWatermarkId = 0
    /\ watermarkIdCounter = 0
    /\ resizeCount = 0
    /\ textHeap = << [size |-> Num(48), content |-> "wm"] >>
    /\ watermarkSettings = [text |-> 1]
    /\ geoCall = [fn |-> "none"]
    /\ geoResult = [fn |-> "none"]
    /\ processingQueue = <<>>
    /\ settingsHeap = << [valid |-> TRUE, content |-> "wm"] >>
    /\ isProcessing = FALSE
    /\ shouldStop = FALSE
    /\ results = <<>>
    /\ errors = <<>>
    /\ batchPc = "idle"
    /\ batchIndex = 1
    /\ inflight = [id |-> 0]
    /\ itemCounter = 0
    /\ processQueueError = "none"
    /\ templates = <<>>
    /\ clock = 0
    /\ templateIdCounter = 0
    /\ lastSave = [called |-> FALSE]
    /\ notification = "none"
    /\ previewCanvas = <<>>
    /\ passes = <<>>

\* WatermarkEngine.applyWatermarks(targetCtx, watermarks, bounds, scaleFactor)
StartApplyWatermarks ==
    /\ pc = "idle"
    /\ \E e \in Engines, n \in 1..MaxWatermarks :
          \E zs \in [1..n -> 1..MaxZIndex], ss \in [1..n -> PassSettings] :
             /\ engine' = e
             /\ given' = WatermarkList(n, zs, ss)
             /\ queue' = EngineOrder(WatermarkList(n, zs, ss))
    /\ passKind' = "applyWatermarks"
    /\ idx' = 1
    /\ pc' = "loop"
    /\ calls' = <<>>
    /\ ctxDepth' = 0
    /\ UNCHANGED <<geoVars, appVars, batchVars, templateVars>>
    /\ UNCHANGED previewVars

\* WatermarkApp.renderWatermarksOnCanvas(ctx, canvasWidth, canvasHeight)
StartRenderWatermarksOnCanvas ==
    /\ pc = "idle"
    /\ \E n \in 1..MaxWatermarks :
          \E zs \in [1..n -> 1..MaxZIndex], ss \in [1..n -> PassSettings] :
             /\ given' = WatermarkList(n, zs, ss)
             /\ queue' = AppOrder(WatermarkList(n, zs, ss))
    /\ engine' = "app"
    /\ passKind' = "renderWatermarksOnCanvas"
    /\ idx' = 1
    /\ pc' = "loop"
    /\ calls' = <<>>
    /\ ctxDepth' = 0
    /\ UNCHANGED <<geoVars, appVars, batchVars, templateVars>>
    /\ UNCHANGED previewVars

\* a direct call of WatermarkEngine.applyWatermark, as generateWatermarkedImage
\* and generatePreview make it
StartApplyWatermark ==
    /\ pc = "idle"
    /\ \E e \in Engines, s \in Settings :
          /\ engine' = e
          /\ given' = <<Watermark(1, 1, s)>>
          /\ queue' = <<Watermark(1, 1, s)>>
    /\ passKind' = "applyWatermark"
    /\ idx' = 1
    /\ pc' = "loop"
    /\ calls' = <<>>
    /\ ctxDepth' = 0
    /\ UNCHANGED <<geoVars, appVars, batchVars, templateVars>>
    /\ UNCHANGED previewVars

\* one iteration of the compositor's loop: await the render of queue[idx]
RenderNext ==
    /\ pc = "loop"
    /\ idx <= Len(queue)
    /\ LET w == queue[idx]
           r == Render(engine, w.settings) IN
       /\ calls' = Append(calls, [id |-> w.id, zIndex |-> w.zIndex,
                                  settings |-> w.settings, ops |-> r.ops,
                                  how |-> r.how, ran |-> r.ran, error |-> r.error])
       /\ ctxDepth' = ctxDepth + Count(r.ops, "save") - Count(r.ops, "restore")
       /\ pc' = IF r.how = "returned" THEN "loop" ELSE r.how
       /\ idx' = IF r.how = "returned" THEN idx + 1 ELSE idx
    /\ UNCHANGED <<passKind, engine, given, queue>>
    /\ UNCHANGED <<geoVars, appVars, batchVars, templateVars>>
    /\ UNCHANGED previewVars

\* the loop has walked the whole array: the compositor's promise resolves
PassReturn ==
    /\ pc = "loop"
    /\ idx > Len(queue)
    /\ pc' = "returned"
    /\ UNCHANGED <<passKind, engine, given, queue, idx, calls, ctxDepth>>
    /\ UNCHANGED <<geoVars, appVars, batchVars, templateVars>>
    /\ UNCHANGED previewVars

\* the caller starts over with a fresh surface
NewPass ==
    /\ pc \in {"returned", "threw", "hung"}
    /\ pc' = "idle"
    /\ passKind' = "none"
    /\ engine' = "legacy"
    /\ given' = <<>>
    /\ queue' = <<>>
    /\ idx' = 1
    /\ calls' = <<>>
    /\ ctxDepth' = 0
    /\ UNCHANGED <<geoVars, appVars, batchVars, templateVars>>
    /\ UNCHANGED previewVars

RenderNext_ ==
    \/ StartApplyWatermarks
    \/ StartRenderWatermarksOnCanvas
    \/ StartApplyWatermark
    \/ RenderNext
    \/ PassReturn
    \/ NewPass

SpecRender == Init /\ [][RenderNext_]_vars

(***************************************************************************)
(* The editing session of WatermarkApp (src/js/app.js, first class).       *)
(* The overlay elements of the page are not part of the state: the size of *)
(* a text object is settings.text.size as the handlers and their           *)
(* updatePreview leave it.                                                 *)
(***************************************************************************)
\* container.clientWidth and container.clientHeight of the canvas container
ContainerClientWidth == 832
ContainerClientHeight == 632
DRAG_MARGIN == 6

RRound(a) == Num((2 * a.n + a.d) \div (2 * a.d))

\* updatePreview, up to this.canvasBounds = {previewWidth, previewHeight}
PreviewBounds(img, z) ==
    LET containerWidth == Num(ContainerClientWidth - 32)
        containerHeight == RMax(Num(ContainerClientHeight - 32), Num(500))
        scaleToFit == RMin(RDiv(containerWidth, img.width), RDiv(containerHeight, img.height))
        finalScale == RMul(scaleToFit, z) IN
    [width |-> RRound(RMul(img.width, finalScale)),
     height |-> RRound(RMul(img.height, finalScale))]

\* this.canvasBounds after updatePreview() in a session with images imgs,
\* current index i and zoom z
UpdatePreviewBounds(imgs, i, z, old) ==
    IF i < 0 \/ i >= Len(imgs) THEN old ELSE PreviewBounds(imgs[i + 1], z)

\* scaling.minFontSize and scaling.maxFontSize of every watermark
minFontSize == 8
maxFontSize == 200

\* the kinds of settings a watermark is created from: text settings, an
\* image given as a data URL string, an image given as a decoded image object
\* (which has a width and a height)
NewWatermarkKinds ==
    {[type |-> "text", imageData |-> "none",
      imageWidth |-> Num(0), imageHeight |-> Num(0)],
     [type |-> "image", imageData |-> "dataUrl",
      imageWidth |-> Num(0), imageHeight |-> Num(0)],
     [type |-> "image", imageData |-> "decoded",
      imageWidth |-> Num(300), imageHeight |-> Num(200)]}

\* the settings handed to createWatermark: { ...this.watermarkSettings } or
\* an object built with text: this.watermarkSettings.text, either of which
\* holds the text object of this.watermarkSettings, whose size is read
NewWatermarkSettings(kind, texts, ref) ==
    [type |-> kind.type, imageData |-> kind.imageData,
     imageWidth |-> kind.imageWidth, imageHeight |-> kind.imageHeight,
     text |-> ref, size |-> texts[ref].size]

\* createWatermark(settings): the new watermark object; null is Num(0)
createWatermark(settings, counter, count, cb) ==
    LET isText == settings.type = "text"
        width == IF isText THEN Num(200) ELSE Num(150)
        height == IF isText THEN Num(60) ELSE Num(100)
        centred == count = 0 /\ RLt(Num(0), cb.width)
        hasSize == ~isText /\ settings.imageData \in {"decoded", "stripped"}
                   /\ settings.imageWidth # Num(0) /\ settings.imageHeight # Num(0) IN
    [id |-> counter + 1,
     type |-> settings.type,
     imageData |-> settings.imageData,
     text |-> settings.text,
     transform |->
        [x |-> IF centred THEN Half(RSub(cb.width, width)) ELSE Num(50 + count * 30),
         y |-> IF centred THEN Half(RSub(cb.height, height)) ELSE Num(50 + count * 30),
         width |-> width,
         height |-> height,
         rotation |-> Num(0)],
     zIndex |-> counter + 1,
     scaling |->
        [baseFontSize |-> IF isText THEN settings.size ELSE Num(0),
         baseWidth |-> width,
         baseHeight |-> height,
         aspectRatio |-> IF hasSize THEN RDiv(settings.imageWidth, settings.imageHeight)
                         ELSE Num(0),
         fontScaleFactor |-> Num(1),
         maintainAspectRatio |-> ~isText]]

\* the font size grows from the current size by the current scale factor
calculateDynamicFontSizeFromCurrent(watermark, texts) ==
    IF watermark.type # "text" \/ watermark.scaling.baseFontSize = Num(0)
        THEN texts[watermark.text].size
        ELSE RMax(Num(minFontSize),
                  RMin(Num(maxFontSize),
                       RMul(texts[watermark.text].size,
                            watermark.scaling.fontScaleFactor)))

\* calculateDynamicFontSize(watermark), with the text objects as they are
calculateDynamicFontSize(watermark, texts) ==
    IF watermark.type # "text" \/ watermark.scaling.baseFontSize = Num(0)
        THEN texts[watermark.text].size
        ELSE LET widthScale == RDiv(watermark.transform.width, watermark.scaling.baseWidth)
                 heightScale == RDiv(watermark.transform.height, watermark.scaling.baseHeight)
                 scaleFactor == RMin(widthScale, heightScale)
                 newFontSize == RMul(watermark.scaling.baseFontSize, scaleFactor) IN
             RMax(Num(minFontSize), RMin(Num(maxFontSize), newFontSize))

\* updateWatermarkScaling(watermark, newWidth, newHeight): the watermark
\* afterwards.  The aspect-ratio branch assigns to its parameters newWidth and
\* newHeight only, after the transform has been written.
updateWatermarkScaling(watermark, newWidth, newHeight) ==
    LET sized == [watermark EXCEPT !.transform.width = newWidth,
                                   !.transform.height = newHeight]
        widthScale == RDiv(newWidth, watermark.scaling.baseWidth)
        heightScale == RDiv(newHeight, watermark.scaling.baseHeight) IN
    IF watermark.type = "text"
        THEN [sized EXCEPT !.scaling.fontScaleFactor = RMin(widthScale, heightScale)]
        ELSE sized

\* watermark.settings.text.size = this.calculateDynamicFontSize(watermark):
\* the text objects afterwards
WriteFontSize(texts, watermark) ==
    IF watermark.type = "text"
        THEN [texts EXCEPT ![watermark.text].size = calculateDynamicFontSize(watermark, texts)]
        ELSE texts

\* updatePreview(): the font size of the text object of every text watermark
\* of the list is set to the watermark's dynamic font size, in the order of
\* the list, before the watermarks are rendered
RECURSIVE PreviewFontSizes(_, _, _)
PreviewFontSizes(texts, heap, list) ==
    IF list = <<>> THEN texts
    ELSE PreviewFontSizes(WriteFontSize(texts, heap[Head(list)]), heap, Tail(list))

\* the text objects after updatePreview() in a session with images imgs and
\* current index i
UpdatePreviewTexts(imgs, i, texts, heap, list) ==
    IF i < 0 \/ i >= Len(imgs) THEN texts ELSE PreviewFontSizes(texts, heap, list)

\* updateWatermarkControls(): this.watermarks.sort((a, b) => b.zIndex - a.zIndex)
InsertByZDescending(heap, sorted, r) ==
    LET ahead == {i \in DOMAIN sorted : heap[sorted[i]].zIndex >= heap[r].zIndex}
        k == Cardinality(ahead) IN
    SubSeq(sorted, 1, k) \o <<r>> \o SubSeq(sorted, k + 1, Len(sorted))

RECURSIVE SortControls(_, _)
SortControls(heap, list) ==
    IF list = <<>> THEN <<>>
    ELSE InsertByZDescending(heap, SortControls(heap, SubSeq(list, 1, Len(list) - 1)),
                             list[Len(list)])

RECURSIVE MaxOf(_, _)
MaxOf(m, ns) == IF ns = {} THEN m
                ELSE LET n == CHOOSE x \in ns : TRUE IN
                     MaxOf(IF n > m THEN n ELSE m, ns \ {n})

\* selectSourceImage(index), with this.sourceImages = imgs and
\* this.currentImageIndex = current at the time of the call
SelectSourceImageFrom(imgs, current, index) ==
    LET saved == IF current >= 0 /\ current < Len(imgs)
                 THEN [imgs EXCEPT ![current + 1].watermarks = watermarks]
                 ELSE imgs
        loaded == saved[index + 1].watermarks IN
    /\ sourceImages' = saved
    /\ currentImageIndex' = index
    /\ watermarks' = SortControls(wmHeap, loaded)
    /\ textHeap' = UpdatePreviewTexts(saved, index, textHeap, wmHeap, loaded)
    /\ UNCHANGED <<wmHeap, watermarkSettings>>
    /\ watermarkIdCounter' = MaxOf(watermarkIdCounter, {wmHeap[r].id : r \in Range(loaded)})
    /\ selectedWatermarkId' = 0
    /\ canvasBounds' = UpdatePreviewBounds(saved, index, zoom, canvasBounds)

SelectSourceImage(imgs, index) == SelectSourceImageFrom(imgs, currentImageIndex, index)

ImageSizes == {Size(1600, 1200), Size(800, 800)}

\* addSourceImage(file): push the image; the first one is selected
AddSourceImage ==
    /\ Len(sourceImages) < MaxImages
    /\ \E sz \in ImageSizes :
          LET img == [width |-> sz.width, height |-> sz.height, watermarks |-> <<>>]
              imgs == Append(sourceImages, img) IN
          IF Len(imgs) = 1
          THEN SelectSourceImage(imgs, 0) /\ UNCHANGED zoom
          ELSE sourceImages' = imgs
               /\ UNCHANGED <<currentImageIndex, zoom, canvasBounds, watermarks, wmHeap,
                              selectedWatermarkId, watermarkIdCounter, textHeap,
                              watermarkSettings>>
    /\ UNCHANGED <<resizeCount, renderVars, geoVars, batchVars, templateVars>>
    /\ UNCHANGED previewVars

\* a click on an entry of the source list
ClickSourceImage ==
    /\ \E index \in 0..(Len(sourceImages) - 1) : SelectSourceImage(sourceImages, index)
    /\ UNCHANGED zoom
    /\ UNCHANGED <<resizeCount, renderVars, geoVars, batchVars, templateVars>>
    /\ UNCHANGED previewVars

\* the array without its element at a 0-based index
Splice(seq, index) == SubSeq(seq, 1, index) \o SubSeq(seq, index + 2, Len(seq))

\* removeSourceImage(index)
RemoveSourceImageAt(index) ==
    LET imgs == Splice(sourceImages, index)
        current == IF currentImageIndex = index
                      THEN (IF Len(imgs) > 0 THEN 0 ELSE -1)
                   ELSE IF currentImageIndex > index THEN currentImageIndex - 1
                   ELSE currentImageIndex IN
    /\ IF Len(imgs) # 0 /\ current >= 0
          THEN SelectSourceImageFrom(imgs, current, current)
          ELSE /\ sourceImages' = imgs
               /\ currentImageIndex' = current
               /\ UNCHANGED <<canvasBounds, watermarks, wmHeap, selectedWatermarkId,
                              watermarkIdCounter, textHeap, watermarkSettings>>
    /\ UNCHANGED zoom
    /\ UNCHANGED <<resizeCount, renderVars, geoVars, batchVars, templateVars>>
    /\ UNCHANGED previewVars

\* a click on the remove button of an entry of the source list
RemoveSourceImage ==
    \E index \in 0..(Len(sourceImages) - 1) : RemoveSourceImageAt(index)

\* addWatermark(settings), with the session as it is at the call: what it
\* does to the watermark list
AddWatermarkTo(settings, list, counter) ==
    LET w == createWatermark(settings, counter, Len(list), canvasBounds)
        heap == Append(wmHeap, w) IN
    /\ wmHeap' = heap
    /\ watermarks' = SortControls(heap, Append(list, Len(heap)))
    /\ selectedWatermarkId' = w.id
    /\ watermarkIdCounter' = w.id

\* addWatermark(): refused until an image gives the canvas its bounds
AddWatermark ==
    /\ canvasBounds.width # Num(0) /\ canvasBounds.height # Num(0)
    /\ Len(wmHeap) < MaxSessionWatermarks
    /\ \E kind \in NewWatermarkKinds :
          AddWatermarkTo(NewWatermarkSettings(kind, textHeap, watermarkSettings.text),
                         watermarks, watermarkIdCounter)
    /\ UNCHANGED <<sourceImages, currentImageIndex, zoom, canvasBounds, textHeap,
                   watermarkSettings>>
    /\ UNCHANGED <<resizeCount, renderVars, geoVars, batchVars, templateVars>>
    /\ UNCHANGED previewVars

\* deleteWatermark(watermarkId), followed by its updatePreview
deleteWatermark ==
    /\ \E index \in DOMAIN watermarks :
          LET id == wmHeap[watermarks[index]].id
              left == SubSeq(watermarks, 1, index - 1)
                      \o SubSeq(watermarks, index + 1, Len(watermarks)) IN
          /\ watermarks' = SortControls(wmHeap, left)
          /\ selectedWatermarkId' = IF selectedWatermarkId = id THEN 0
                                    ELSE selectedWatermarkId
          /\ textHeap' = UpdatePreviewTexts(sourceImages, currentImageIndex, textHeap,
                                             wmHeap, SortControls(wmHeap, left))
    /\ canvasBounds' = UpdatePreviewBounds(sourceImages, currentImageIndex, zoom, canvasBounds)
    /\ UNCHANGED <<sourceImages, currentImageIndex, zoom, watermarkIdCounter, wmHeap,
                   watermarkSettings>>
    /\ UNCHANGED <<resizeCount, renderVars, geoVars, batchVars, templateVars>>

\* deleteWatermark(watermarkId) where the canvas is not looked at
DeleteWatermark == deleteWatermark /\ UNCHANGED previewVars

\* positions of the box the mouse asks for, relative to the canvas
DragTargets == {<<100, 100>>, <<2000, 2000>>}

\* handleWatermarkDrag, followed by the throttled updatePreview
handleWatermarkDrag ==
    /\ \E i \in DOMAIN watermarks, m \in DragTargets :
          LET r == watermarks[i]
              t == wmHeap[r].transform
              minX == Num(DRAG_MARGIN)
              minY == Num(DRAG_MARGIN)
              maxX == RSub(RSub(canvasBounds.width, t.width), Num(DRAG_MARGIN))
              maxY == RSub(RSub(canvasBounds.height, t.height), Num(DRAG_MARGIN))
              newX == RRound(RMax(minX, RMin(Num(m[1]), maxX)))
              newY == RRound(RMax(minY, RMin(Num(m[2]), maxY))) IN
          wmHeap' = [wmHeap EXCEPT ![r].transform.x = newX, ![r].transform.y = newY]
    /\ textHeap' = UpdatePreviewTexts(sourceImages, currentImageIndex, textHeap, wmHeap,
                                       watermarks)
    /\ canvasBounds' = UpdatePreviewBounds(sourceImages, currentImageIndex, zoom, canvasBounds)
    /\ UNCHANGED <<sourceImages, currentImageIndex, zoom, watermarks, selectedWatermarkId,
                   watermarkIdCounter, watermarkSettings>>
    /\ UNCHANGED <<resizeCount, renderVars, geoVars, batchVars, templateVars>>

\* handleWatermarkDrag where the canvas is not looked at
DragWatermark == handleWatermarkDrag /\ UNCHANGED previewVars

\* a smaller minimum box
minSizeSmaller == [width |-> 40, height |-> 20]

\* the smallest box a resize leaves
minSize == [width |-> 50, height |-> 25]

ResizeHandles == {"handle-se", "handle-nw", "handle-ne", "handle-sw"}

\* positions of the mouse during a resize, relative to the canvas
ResizeTargets == {<<20, 10>>, <<320, 140>>, <<2000, 2000>>}

\* handleWatermarkResize: the watermark after the branch of the handle
ResizedWatermark(watermark, handle, mouseX, mouseY, canvasRect) ==
    LET t == watermark.transform
        right == RAdd(t.x, t.width)
        bottom == RAdd(t.y, t.height)
        newX == RRound(RMax(Num(DRAG_MARGIN),
                            RMin(mouseX, RSub(right, Num(minSize.width)))))
        newY == RRound(RMax(Num(DRAG_MARGIN),
                            RMin(mouseY, RSub(bottom, Num(minSize.height)))))
        widthFromMouse ==
            RRound(RMax(Num(minSize.width),
                        RMin(RSub(mouseX, t.x),
                             RSub(RSub(canvasRect.width, t.x), Num(DRAG_MARGIN)))))
        heightFromMouse ==
            RRound(RMax(Num(minSize.height),
                        RMin(RSub(mouseY, t.y),
                             RSub(RSub(canvasRect.height, t.y), Num(DRAG_MARGIN)))))
        widthFromLeft == RRound(RSub(right, newX))
        heightFromTop == RRound(RSub(bottom, newY))
        AtLeast(a, n) == ~RLt(a, Num(n)) IN
    CASE handle = "handle-se" ->
            updateWatermarkScaling(watermark, widthFromMouse, heightFromMouse)
      [] handle = "handle-nw" ->
            IF AtLeast(widthFromLeft, minSize.width) /\ AtLeast(heightFromTop, minSize.height)
                THEN updateWatermarkScaling(
                         [watermark EXCEPT !.transform.x = newX, !.transform.y = newY],
                         widthFromLeft, heightFromTop)
                ELSE watermark
      [] handle = "handle-ne" ->
            IF AtLeast(heightFromTop, minSize.height)
                THEN updateWatermarkScaling([watermark EXCEPT !.transform.y = newY],
                                            widthFromMouse, heightFromTop)
                ELSE watermark
      [] handle = "handle-sw" ->
            IF AtLeast(widthFromLeft, minSize.width)
                THEN updateWatermarkScaling([watermark EXCEPT !.transform.x = newX],
                                            widthFromLeft, heightFromMouse)
                ELSE watermark

\* handleWatermarkResize, followed by its updatePreview
ResizeWatermark ==
    /\ resizeCount < MaxResizes
    /\ resizeCount' = resizeCount + 1
    /\ \E i \in DOMAIN watermarks, handle \in ResizeHandles, m \in ResizeTargets :
          LET r == watermarks[i]
              resized == ResizedWatermark(wmHeap[r], handle, Num(m[1]), Num(m[2]),
                                          canvasBounds) IN
          /\ wmHeap' = [wmHeap EXCEPT ![r] = resized]
          /\ textHeap' = UpdatePreviewTexts(sourceImages, currentImageIndex,
                                             WriteFontSize(textHeap, resized),
                                             [wmHeap EXCEPT ![r] = resized], watermarks)
    /\ canvasBounds' = UpdatePreviewBounds(sourceImages, currentImageIndex, zoom, canvasBounds)
    /\ UNCHANGED <<sourceImages, currentImageIndex, zoom, watermarks, selectedWatermarkId,
                   watermarkIdCounter, watermarkSettings>>
    /\ UNCHANGED <<renderVars, geoVars, batchVars, templateVars>>
    /\ UNCHANGED previewVars

RECURSIVE Pow(_, _)
Pow(b, e) == IF e = 0 THEN 1 ELSE b * Pow(b, e - 1)

\* the zoom levels within MaxZoomSteps steps of 1
ZoomInRange(z) == z.n <= Pow(6, MaxZoomSteps) /\ z.d <= Pow(6, MaxZoomSteps)

SetZoom(z) ==
    /\ ZoomInRange(z)
    /\ zoom' = z
    /\ canvasBounds' = UpdatePreviewBounds(sourceImages, currentImageIndex, z, canvasBounds)
    /\ textHeap' = UpdatePreviewTexts(sourceImages, currentImageIndex, textHeap, wmHeap,
                                       watermarks)
    /\ UNCHANGED <<sourceImages, currentImageIndex, watermarks, selectedWatermarkId,
                   watermarkIdCounter, wmHeap, watermarkSettings>>
    /\ UNCHANGED <<resizeCount, renderVars, geoVars, batchVars, templateVars>>
    /\ UNCHANGED previewVars

\* zoomIn(): this.zoom = Math.min(this.zoom * 1.2, 3); updatePreview()
ZoomIn == SetZoom(RMin(RMul(zoom, Rat(6, 5)), Num(3)))

\* zoomOut(): this.zoom = Math.max(this.zoom / 1.2, 0.2); updatePreview()
ZoomOut == SetZoom(RMax(RDiv(zoom, Rat(6, 5)), Rat(1, 5)))

\* fitToScreen(): this.zoom = 1; updatePreview()
FitToScreen == SetZoom(Num(1))

AppNext ==
    \/ AddSourceImage
    \/ ClickSourceImage
    \/ AddWatermark
    \/ DragWatermark
    \/ ZoomIn
    \/ ZoomOut
    \/ FitToScreen

SpecApp == Init /\ [][AppNext]_vars

(***************************************************************************)
(* Properties of the editing session                                       *)
(***************************************************************************)
\* the watermark r keeps its place relative to the canvas over a step
KeepsRelativePlacement(r) ==
    LET t == wmHeap[r].transform
        u == wmHeap'[r].transform IN
    /\ RMul(u.x, canvasBounds.width) = RMul(t.x, canvasBounds'.width)
    /\ RMul(u.width, canvasBounds.width) = RMul(t.width, canvasBounds'.width)
    /\ RMul(u.y, canvasBounds.height) = RMul(t.y, canvasBounds'.height)
    /\ RMul(u.height, canvasBounds.height) = RMul(t.height, canvasBounds'.height)

\* C6: whenever the interactive canvas dimensions change (zoom in, zoom
\* out, fit-to-screen, a preview refresh for an image of another size), each
\* watermark's x/canvasWidth, y/canvasHeight, width/canvasWidth and
\* height/canvasHeight are preserved, so that the transform stays expressed
\* in the canvas space getWatermarkSettingsFromTransform exports it with.
C6_RelativePlacementPreserved ==
    [][(canvasBounds' # canvasBounds /\ canvasBounds.width # Num(0)) =>
           \A r \in Range(watermarks) \cap Range(watermarks') :
               KeepsRelativePlacement(r)]_vars

(***************************************************************************)
(* Properties of the renderer and the compositors                          *)
(***************************************************************************)
CompositorPass == passKind \in {"applyWatermarks", "renderWatermarksOnCanvas"}

EnginePass == engine \in Engines /\ passKind \in {"applyWatermarks", "applyWatermark"}

PassOver == pc \in {"returned", "threw"}

Rendered(id) == \E i \in DOMAIN calls : calls[i].id = id

Balanced(ops) == Count(ops, "save") = Count(ops, "restore")

\* C1: a compositor invokes the renderer once per watermark, in ascending
\* zIndex order, whatever the order of the array it is given
\* (WatermarkEngine.applyWatermarks and WatermarkApp.renderWatermarksOnCanvas).
C1_RenderOrderAscending ==
    CompositorPass =>
        /\ \A i, j \in DOMAIN calls : i < j => calls[i].zIndex <= calls[j].zIndex
        /\ pc = "returned" =>
              /\ Len(calls) = Len(given)
              /\ \A k \in DOMAIN given : Rendered(given[k].id)

\* C2: when a call of WatermarkEngine.applyWatermark returns or throws, it
\* has made as many ctx.restore() calls as ctx.save() calls.
C2_SaveRestoreBalanced ==
    EnginePass =>
        \A i \in DOMAIN calls :
            calls[i].how \in {"returned", "threw"} => Balanced(calls[i].ops)

\* C3: when a pass of applyWatermarks is over, every watermark of the list
\* has been rendered, also the ones that follow a watermark whose render
\* failed.
C3_FailureDoesNotAbortPass ==
    (passKind = "applyWatermarks" /\ PassOver) =>
        \A k \in DOMAIN given : Rendered(given[k].id)

\* C4: applyWatermark runs only the text painter for type 'text', only the
\* image painter for 'image', the text painter and then the image painter
\* for 'combined'; for any other type it throws an error that names the
\* type, runs no painter and paints nothing.
C4_DispatchOnType ==
    EnginePass =>
        \A i \in DOMAIN calls :
            LET c == calls[i]
                t == c.settings.type IN
            /\ t = "text" => c.ran = <<"text">>
            /\ t = "image" => c.ran = <<"image">>
            /\ t = "combined" => c.ran = <<"text", "image">>
            /\ t \notin {"text", "image", "combined"} =>
                  /\ c.how = "threw"
                  /\ c.ran = <<>>
                  /\ t \in Range(c.error)
                  /\ Range(c.ops) \cap {"fillText", "drawImage"} = {}

\* a pass in which a 'combined' watermark was rendered by both painters and
\* the next watermark, of unknown type, was refused
C4_Witness ==
    /\ EnginePass
    /\ pc = "threw"
    /\ \E i, j \in DOMAIN calls :
          /\ calls[i].settings.type = "combined"
          /\ calls[i].ran = <<"text", "image">>
          /\ calls[j].settings.type = "video"
          /\ calls[j].how = "threw"

\* the text layer of the settings is one the engine can paint: non-empty
\* content and, for the transform-based painter, a transform to place it
ValidText(e, s) == s.content # "" /\ (e = "transform" => s.transform # "none")

Anchors == {"top-left", "top-center", "top-right",
            "center-left", "center", "center-right",
            "bottom-left", "bottom-center", "bottom-right"}

\* a switch whose 'top-left' case returns the corner instead of the centre
AnchorBaseCornerTopLeft(preset, b, w, h) ==
    CASE preset = "top-left"      -> <<b.x, b.y>>
      [] preset = "top-center"    -> <<RAdd(b.x, Half(b.width)), RAdd(b.y, Half(h))>>
      [] preset = "top-right"     -> <<RSub(RAdd(b.x, b.width), Half(w)), RAdd(b.y, Half(h))>>
      [] preset = "center-left"   -> <<RAdd(b.x, Half(w)), RAdd(b.y, Half(b.height))>>
      [] preset = "center"        -> <<RAdd(b.x, Half(b.width)), RAdd(b.y, Half(b.height))>>
      [] preset = "center-right"  -> <<RSub(RAdd(b.x, b.width), Half(w)), RAdd(b.y, Half(b.height))>>
      [] preset = "bottom-left"   -> <<RAdd(b.x, Half(w)), RSub(RAdd(b.y, b.height), Half(h))>>
      [] preset = "bottom-center" -> <<RAdd(b.x, Half(b.width)), RSub(RAdd(b.y, b.height), Half(h))>>
      [] preset = "bottom-right"  -> <<RSub(RAdd(b.x, b.width), Half(w)), RSub(RAdd(b.y, b.height), Half(h))>>
      [] OTHER                    -> <<RAdd(b.x, Half(b.width)), RAdd(b.y, Half(b.height))>>

\* the switch on preset: <<baseX, baseY>> for a watermark of scaled size w x h
AnchorBase(preset, b, w, h) ==
    CASE preset = "top-left"      -> <<RAdd(b.x, Half(w)), RAdd(b.y, Half(h))>>
      [] preset = "top-center"    -> <<RAdd(b.x, Half(b.width)), RAdd(b.y, Half(h))>>
      [] preset = "top-right"     -> <<RSub(RAdd(b.x, b.width), Half(w)), RAdd(b.y, Half(h))>>
      [] preset = "center-left"   -> <<RAdd(b.x, Half(w)), RAdd(b.y, Half(b.height))>>
      [] preset = "center"        -> <<RAdd(b.x, Half(b.width)), RAdd(b.y, Half(b.height))>>
      [] preset = "center-right"  -> <<RSub(RAdd(b.x, b.width), Half(w)), RAdd(b.y, Half(b.height))>>
      [] preset = "bottom-left"   -> <<RAdd(b.x, Half(w)), RSub(RAdd(b.y, b.height), Half(h))>>
      [] preset = "bottom-center" -> <<RAdd(b.x, Half(b.width)), RSub(RAdd(b.y, b.height), Half(h))>>
      [] preset = "bottom-right"  -> <<RSub(RAdd(b.x, b.width), Half(w)), RSub(RAdd(b.y, b.height), Half(h))>>
      [] OTHER                    -> <<RAdd(b.x, Half(b.width)), RAdd(b.y, Half(b.height))>>

\* src/js/watermarkEngine.js calculatePosition: no 'custom' case, so
\* 'custom' takes the default branch and x, y are added as pixel offsets
LegacyCalculatePosition(pos, b, wm, sf) ==
    LET scaledOffsetX == RMul(pos.x, sf)
        scaledOffsetY == RMul(pos.y, sf)
        scaledWmWidth == RMul(wm.width, sf)
        scaledWmHeight == RMul(wm.height, sf)
        base == AnchorBase(pos.preset, b, scaledWmWidth, scaledWmHeight) IN
    [x |-> RAdd(base[1], scaledOffsetX),
     y |-> RAdd(base[2], scaledOffsetY),
     scaleFactor |-> sf]

\* src/README.md calculatePosition: 'custom' reads x, y as a centre
\* normalised to 0..1000 and returns the top-left corner of the box
TransformCalculatePosition(pos, b, wm, sf) ==
    LET scaledWmWidth == RMul(wm.width, sf)
        scaledWmHeight == RMul(wm.height, sf)
        scaledOffsetX == RMul(pos.x, sf)
        scaledOffsetY == RMul(pos.y, sf) IN
    IF pos.preset = "custom"
    THEN LET nx == RMax(Num(0), RMin(Num(1), RDiv(pos.x, Num(1000))))
             ny == RMax(Num(0), RMin(Num(1), RDiv(pos.y, Num(1000))))
             centerX == RAdd(b.x, RMul(b.width, nx))
             centerY == RAdd(b.y, RMul(b.height, ny)) IN
         [x |-> RSub(centerX, Half(scaledWmWidth)),
          y |-> RSub(centerY, Half(scaledWmHeight)),
          scaleFactor |-> sf]
    ELSE LET base == AnchorBase(pos.preset, b, scaledWmWidth, scaledWmHeight) IN
         [x |-> RAdd(base[1], scaledOffsetX),
          y |-> RAdd(base[2], scaledOffsetY),
          scaleFactor |-> sf]

calculatePosition(e, pos, b, wm, sf) ==
    IF e = "legacy" THEN LegacyCalculatePosition(pos, b, wm, sf)
                    ELSE TransformCalculatePosition(pos, b, wm, sf)

(***************************************************************************)
(* The transform scaling of the transform-based painters (README           *)
(* applyTextWatermark and applyImageWatermark): a previewCanvasWidth or    *)
(* previewCanvasHeight of 0 stands for an absent (falsy) field.            *)
(***************************************************************************)
HasPreviewDims(t) == t.previewCanvasWidth # Num(0) /\ t.previewCanvasHeight # Num(0)

\* a scaler that applies the horizontal ratio to both axes
ScaleTransformUniform(t, b) ==
    IF HasPreviewDims(t)
    THEN LET scaleX == RDiv(b.width, t.previewCanvasWidth) IN
         [x |-> RMul(t.x, scaleX), y |-> RMul(t.y, scaleX),
          width |-> RMul(t.width, scaleX), height |-> RMul(t.height, scaleX),
          rotation |-> t.rotation]
    ELSE t

ScaleTransform(t, b) ==
    IF HasPreviewDims(t)
    THEN LET scaleX == RDiv(b.width, t.previewCanvasWidth)
             scaleY == RDiv(b.height, t.previewCanvasHeight) IN
         [x |-> RMul(t.x, scaleX), y |-> RMul(t.y, scaleY),
          width |-> RMul(t.width, scaleX), height |-> RMul(t.height, scaleY),
          rotation |-> t.rotation]
    ELSE t

(***************************************************************************)
(* The position of a watermark placed by its position settings (no         *)
(* transform), as the painters compute it.                                 *)
(***************************************************************************)
\* estimateTextWidth: the width of a string grows linearly with the font
\* size; the factor is the one of the method's own fallback estimate
estimateTextWidth(len, size) == RMul(RMul(size, Num(len)), Rat(3, 5))

\* src/js/watermarkEngine.js applyTextWatermark, up to calculatePosition
LegacyTextPosition(text, pos, b, sf) ==
    LET scaledTextSize == RMul(text.size, sf)
        textWidth == estimateTextWidth(text.len, scaledTextSize) IN
    LegacyCalculatePosition(pos, b, [width |-> textWidth, height |-> scaledTextSize], sf)

\* src/README.md applyImageWatermark, position-based branch
TransformImagePosition(image, pos, b, sf) ==
    LET scale == RMul(RDiv(image.scale, Num(100)), sf)
        watermarkWidth == RMul(image.naturalWidth, scale)
        watermarkHeight == RMul(image.naturalHeight, scale) IN
    TransformCalculatePosition(pos, b, [width |-> watermarkWidth, height |-> watermarkHeight], sf)

(***************************************************************************)
(* Calls of the geometry functions                                         *)
(***************************************************************************)
GeoBounds == {Box(0, 0, 800, 600), Box(10, 20, 400, 300), Box(0, 0, 1600, 1200),
              Box(0, 0, 1000, 500)}
GeoSizes == {Size(200, 100), Size(51, 25)}
GeoOffsets == {-10, 0, 500, 1200}
GeoPresets == Anchors \cup {"custom", "middle"}
GeoScales == {Rat(1, 2), Num(1), Num(2)}

GeoTransforms ==
    {[x |-> Num(p[1]), y |-> Num(p[2]), width |-> Num(sz[1]), height |-> Num(sz[2]),
      rotation |-> Num(r), previewCanvasWidth |-> Num(pv[1]),
      previewCanvasHeight |-> Num(pv[2])] :
        p \in {<<100, 100>>, <<40, 30>>}, sz \in {<<200, 60>>, <<80, 40>>},
        r \in {0, 15}, pv \in {<<0, 0>>, <<800, 600>>, <<400, 300>>, <<800, 0>>}}

ScaleBox(b, k) == [x |-> RMul(b.x, k), y |-> RMul(b.y, k),
                   width |-> RMul(b.width, k), height |-> RMul(b.height, k)]

CallCalculatePosition ==
    /\ geoCall.fn = "none"
    /\ \E e \in Engines, preset \in GeoPresets, ox \in GeoOffsets, oy \in GeoOffsets,
          b \in GeoBounds, wm \in GeoSizes, sf \in GeoScales :
          LET pos == [preset |-> preset, x |-> Num(ox), y |-> Num(oy)] IN
          /\ geoCall' = [fn |-> "calculatePosition", engine |-> e, position |-> pos,
                         bounds |-> b, watermarkSize |-> wm, scaleFactor |-> sf]
          /\ geoResult' = [fn |-> "calculatePosition",
                           pos |-> calculatePosition(e, pos, b, wm, sf)]
    /\ UNCHANGED <<renderVars, appVars, batchVars, templateVars>>
    /\ UNCHANGED previewVars

CallScaleTransform ==
    /\ geoCall.fn = "none"
    /\ \E t \in GeoTransforms, b \in GeoBounds :
          /\ geoCall' = [fn |-> "scaleTransform", transform |-> t, bounds |-> b]
          /\ geoResult' = [fn |-> "scaleTransform", actualTransform |-> ScaleTransform(t, b)]
    /\ UNCHANGED <<renderVars, appVars, batchVars, templateVars>>
    /\ UNCHANGED previewVars

\* the same anchored text watermark placed on the full-resolution output
\* (scale factor 1) and on a preview of scale factor sf
CallLegacyTextPosition ==
    /\ geoCall.fn = "none"
    /\ \E preset \in Anchors, ox \in {-10, 0}, oy \in {0, 12}, b \in GeoBounds,
          size \in {48, 20}, len \in {1, 5}, sf \in GeoScales :
          LET pos == [preset |-> preset, x |-> Num(ox), y |-> Num(oy)]
              text == [size |-> Num(size), len |-> len] IN
          /\ geoCall' = [fn |-> "anchoredPosition", painter |-> "applyTextWatermark",
                         subject |-> text, position |-> pos, bounds |-> b,
                         scaleFactor |-> sf]
          /\ geoResult' = [fn |-> "anchoredPosition",
                           full |-> LegacyTextPosition(text, pos, b, Num(1)),
                           preview |-> LegacyTextPosition(text, pos, ScaleBox(b, sf), sf)]
    /\ UNCHANGED <<renderVars, appVars, batchVars, templateVars>>
    /\ UNCHANGED previewVars

\* the same for an anchored image watermark of the transform-based engine
CallTransformImagePosition ==
    /\ geoCall.fn = "none"
    /\ \E preset \in Anchors, ox \in {-10, 0}, oy \in {0, 12}, b \in GeoBounds,
          nat \in GeoSizes, sc \in {100, 50}, sf \in GeoScales :
          LET pos == [preset |-> preset, x |-> Num(ox), y |-> Num(oy)]
              image == [scale |-> Num(sc), naturalWidth |-> nat.width,
                        naturalHeight |-> nat.height] IN
          /\ geoCall' = [fn |-> "anchoredPosition", painter |-> "applyImageWatermark",
                         subject |-> image, position |-> pos, bounds |-> b,
                         scaleFactor |-> sf]
          /\ geoResult' = [fn |-> "anchoredPosition",
                           full |-> TransformImagePosition(image, pos, b, Num(1)),
                           preview |-> TransformImagePosition(image, pos, ScaleBox(b, sf), sf)]
    /\ UNCHANGED <<renderVars, appVars, batchVars, templateVars>>
    /\ UNCHANGED previewVars

GeoReturn ==
    /\ geoCall.fn # "none"
    /\ geoCall' = [fn |-> "none"]
    /\ geoResult' = [fn |-> "none"]
    /\ UNCHANGED <<renderVars, appVars, batchVars, templateVars>>
    /\ UNCHANGED previewVars

GeoNext ==
    \/ CallCalculatePosition
    \/ CallScaleTransform
    \/ CallLegacyTextPosition
    \/ CallTransformImagePosition
    \/ GeoReturn

SpecGeo == Init /\ [][GeoNext]_vars

(***************************************************************************)
(* Properties of the geometry functions                                    *)
(***************************************************************************)
Clamp(v, lo, hi) == RMax(lo, RMin(hi, v))

BoundsCentre(b) == [x |-> RAdd(b.x, Half(b.width)), y |-> RAdd(b.y, Half(b.height))]

\* C7: a custom position (x, y), each clamped to [0, 1000], resolves to the
\* point (bounds.x + bounds.width*x/1000, bounds.y + bounds.height*y/1000),
\* whatever the watermark size and with no offset added; (500, 500) is the
\* centre of bounds.
C7_CustomIsNormalisedCentre ==
    (geoCall.fn = "calculatePosition" /\ geoCall.position.preset = "custom") =>
        LET b == geoCall.bounds
            nx == RDiv(Clamp(geoCall.position.x, Num(0), Num(1000)), Num(1000))
            ny == RDiv(Clamp(geoCall.position.y, Num(0), Num(1000)), Num(1000)) IN
        /\ geoResult.pos.x = RAdd(b.x, RMul(b.width, nx))
        /\ geoResult.pos.y = RAdd(b.y, RMul(b.height, ny))
        /\ (geoCall.position.x = Num(500) /\ geoCall.position.y = Num(500)) =>
              /\ geoResult.pos.x = BoundsCentre(b).x
              /\ geoResult.pos.y = BoundsCentre(b).y

\* the spec's rule for an anchor, one axis at a time
AnchorColumn(preset) ==
    IF preset \in {"top-left", "center-left", "bottom-left"} THEN "start"
    ELSE IF preset \in {"top-right", "center-right", "bottom-right"} THEN "end"
    ELSE "middle"

AnchorRow(preset) ==
    IF preset \in {"top-left", "top-center", "top-right"} THEN "start"
    ELSE IF preset \in {"bottom-left", "bottom-center", "bottom-right"} THEN "end"
    ELSE "middle"

AlongAxis(where, origin, extent, size) ==
    CASE where = "start"  -> RAdd(origin, Half(size))
      [] where = "middle" -> RAdd(origin, Half(extent))
      [] where = "end"    -> RSub(RAdd(origin, extent), Half(size))

\* C8: for each of the 9 anchors and scale factor 1, calculatePosition
\* returns the watermark's centre flush with the anchor's edges plus the
\* pixel offset, unclamped; for bounds {0,0,800,600}, size {200,100} and no
\* offset: center (400,300), top-left (100,50), bottom-right (700,550).
C8_AnchorCentrePlusOffset ==
    (/\ geoCall.fn = "calculatePosition"
     /\ geoCall.position.preset \in Anchors
     /\ geoCall.scaleFactor = Num(1)) =>
        LET b == geoCall.bounds
            wm == geoCall.watermarkSize
            preset == geoCall.position.preset
            noOffset == geoCall.position.x = Num(0) /\ geoCall.position.y = Num(0)
            example == b = Box(0, 0, 800, 600) /\ wm = Size(200, 100) /\ noOffset IN
        /\ geoResult.pos.x = RAdd(AlongAxis(AnchorColumn(preset), b.x, b.width, wm.width),
                                  geoCall.position.x)
        /\ geoResult.pos.y = RAdd(AlongAxis(AnchorRow(preset), b.y, b.height, wm.height),
                                  geoCall.position.y)
        /\ (example /\ preset = "center") =>
              geoResult.pos.x = Num(400) /\ geoResult.pos.y = Num(300)
        /\ (example /\ preset = "top-left") =>
              geoResult.pos.x = Num(100) /\ geoResult.pos.y = Num(50)
        /\ (example /\ preset = "bottom-right") =>
              geoResult.pos.x = Num(700) /\ geoResult.pos.y = Num(550)

\* calculatePosition has returned (100,50) for 'top-left' on the example
\* bounds and size
C8_Witness ==
    /\ geoCall.fn = "calculatePosition"
    /\ geoCall.position = [preset |-> "top-left", x |-> Num(0), y |-> Num(0)]
    /\ geoCall.bounds = Box(0, 0, 800, 600)
    /\ geoCall.watermarkSize = Size(200, 100)
    /\ geoCall.scaleFactor = Num(1)
    /\ geoResult.pos.x = Num(100)
    /\ geoResult.pos.y = Num(50)

\* C9: the transform used for painting is the transform itself when it
\* carries no previewCanvasWidth/Height, and otherwise has x and width
\* multiplied by bounds.width/previewCanvasWidth, y and height by
\* bounds.height/previewCanvasHeight, and the same rotation;
\* {100,100,200,60,15} captured at 800x600 is {200,200,400,120,15} at
\* 1600x1200.
C9_TransformScaling ==
    geoCall.fn = "scaleTransform" =>
        LET t == geoCall.transform
            b == geoCall.bounds
            a == geoResult.actualTransform IN
        /\ a.rotation = t.rotation
        /\ ~HasPreviewDims(t) =>
              a.x = t.x /\ a.y = t.y /\ a.width = t.width /\ a.height = t.height
        /\ HasPreviewDims(t) =>
              /\ RMul(a.x, t.previewCanvasWidth) = RMul(t.x, b.width)
              /\ RMul(a.width, t.previewCanvasWidth) = RMul(t.width, b.width)
              /\ RMul(a.y, t.previewCanvasHeight) = RMul(t.y, b.height)
              /\ RMul(a.height, t.previewCanvasHeight) = RMul(t.height, b.height)
        /\ (/\ t.x = Num(100) /\ t.y = Num(100) /\ t.width = Num(200)
            /\ t.height = Num(60) /\ t.rotation = Num(15)
            /\ t.previewCanvasWidth = Num(800) /\ t.previewCanvasHeight = Num(600)
            /\ b.width = Num(1600) /\ b.height = Num(1200)) =>
              a = [x |-> Num(200), y |-> Num(200), width |-> Num(400),
                   height |-> Num(120), rotation |-> Num(15)]

\* a transform captured at 800x600 has been scaled for a target of another
\* aspect ratio
C9_Witness ==
    /\ geoCall.fn = "scaleTransform"
    /\ geoCall.transform.previewCanvasWidth = Num(800)
    /\ geoCall.transform.previewCanvasHeight = Num(600)
    /\ geoCall.bounds = Box(0, 0, 1000, 500)
    /\ geoResult.actualTransform.x # geoCall.transform.x
    /\ geoResult.actualTransform.rotation = geoCall.transform.rotation

\* C10: for a watermark placed by an anchor preset, the position computed
\* for a preview of scale factor s, whose bounds are s times the
\* full-resolution bounds, is s times the position computed for the
\* full-resolution output at scale factor 1.
C10_PreviewPositionScalesOnce ==
    geoCall.fn = "anchoredPosition" =>
        /\ geoResult.preview.x = RMul(geoCall.scaleFactor, geoResult.full.x)
        /\ geoResult.preview.y = RMul(geoCall.scaleFactor, geoResult.full.y)

(***************************************************************************)
(* WatermarkEngine.validateSettings                                        *)
(* A settings object may lack a section (settings.text, settings.image,    *)
(* settings.position undefined); reading a field of a missing section      *)
(* throws a TypeError, which the catch turns into one generic message.     *)
(***************************************************************************)
\* a coordinate as JavaScript sees it: typeof and relational comparisons
Coordinate(kind, v) == [kind |-> kind, v |-> v]

IsNumberType(c) == c.kind \in {"number", "NaN"}

\* c < n and c > n; a comparison with NaN or undefined is false
CoordLt(c, n) == c.kind = "number" /\ c.v < n
CoordGt(c, n) == c.kind = "number" /\ c.v > n

ValidatorTypes == {"text", "image", "combined", "invalid"}

TextSections ==
    {[present |-> FALSE, content |-> "", size |-> 0, opacity |-> 0]} \cup
    [present : {TRUE}, content : Contents, size : {48, 1000}, opacity : {80, 150}]

ImageSections ==
    {[present |-> FALSE, imageData |-> FALSE, scale |-> 0, opacity |-> 0]} \cup
    [present : {TRUE}, imageData : BOOLEAN, scale : {0, 100}, opacity : {80}]

Coordinates ==
    {Coordinate("number", v) : v \in {-1, 0, 1000, 1001}} \cup
    {Coordinate("NaN", 0), Coordinate("undefined", 0)}

PositionSections ==
    {[present |-> FALSE, preset |-> "center", x |-> Coordinate("number", 0),
      y |-> Coordinate("number", 0)]} \cup
    [present : {TRUE}, preset : Anchors \cup {"nowhere"},
     x : {Coordinate("number", 0)}, y : {Coordinate("number", 0)}] \cup
    [present : {TRUE}, preset : {"custom"}, x : Coordinates, y : Coordinates]

\* the checks on settings.text, in the order of the code
TextErrors(text) ==
    (IF text.content = "" THEN << <<"Text content is required">> >> ELSE <<>>) \o
    (IF text.size < 8 \/ text.size > 500
        THEN << <<"Text size must be between 8 and 500 pixels">> >> ELSE <<>>) \o
    (IF text.opacity < 0 \/ text.opacity > 100
        THEN << <<"Text opacity must be between 0 and 100">> >> ELSE <<>>)

\* the checks on settings.image
ImageErrors(image) ==
    (IF ~image.imageData THEN << <<"Watermark image is required">> >> ELSE <<>>) \o
    (IF image.scale < 1 \/ image.scale > 500
        THEN << <<"Image scale must be between 1 and 500 percent">> >> ELSE <<>>) \o
    (IF image.opacity < 0 \/ image.opacity > 100
        THEN << <<"Image opacity must be between 0 and 100">> >> ELSE <<>>)

\* src/js/watermarkEngine.js: the nine anchors only
LegacyPositionErrors(position) ==
    IF position.preset \notin Anchors
        THEN << <<"Invalid position preset">> >> ELSE <<>>

\* src/README.md: the nine anchors and 'custom', with its coordinate checks
TransformPositionErrors(position) ==
    (IF position.preset \notin Anchors \cup {"custom"}
        THEN << <<"Invalid position preset:", position.preset>> >> ELSE <<>>) \o
    (IF position.preset = "custom"
        THEN (IF ~IsNumberType(position.x) \/ ~IsNumberType(position.y)
                 THEN << <<"Custom position requires valid x and y coordinates">> >>
                 ELSE <<>>) \o
             (IF \/ CoordLt(position.x, 0) \/ CoordGt(position.x, 1000)
                 \/ CoordLt(position.y, 0) \/ CoordGt(position.y, 1000)
                 THEN << <<"Custom position coordinates must be between 0 and 1000">> >>
                 ELSE <<>>)
        ELSE <<>>)

\* validateSettings(settings) of engine variant e
validateSettings(e, settings) ==
    LET needsText  == settings.type \in {"text", "combined"}
        needsImage == settings.type \in {"image", "combined"}
        throws == \/ needsText /\ ~settings.text.present
                  \/ needsImage /\ ~settings.image.present
                  \/ ~settings.position.present
        collected ==
            (IF settings.type \notin {"text", "image", "combined"}
                THEN << <<"Invalid watermark type">> >> ELSE <<>>) \o
            (IF needsText THEN TextErrors(settings.text) ELSE <<>>) \o
            (IF needsImage THEN ImageErrors(settings.image) ELSE <<>>) \o
            (IF e = "legacy" THEN LegacyPositionErrors(settings.position)
                             ELSE TransformPositionErrors(settings.position)) IN
    IF throws
        THEN [isValid |-> FALSE, errors |-> << <<"Failed to validate settings">> >>]
        ELSE [isValid |-> collected = <<>>, errors |-> collected]

CallValidateSettings ==
    /\ geoCall.fn = "none"
    /\ \E e \in Engines, type \in ValidatorTypes, text \in TextSections,
          image \in ImageSections, position \in PositionSections :
          LET settings == [type |-> type, text |-> text, image |-> image,
                           position |-> position] IN
          /\ geoCall' = [fn |-> "validateSettings", engine |-> e, settings |-> settings]
          /\ geoResult' = [fn |-> "validateSettings",
                           validation |-> validateSettings(e, settings)]
    /\ UNCHANGED <<renderVars, appVars, batchVars, templateVars>>
    /\ UNCHANGED previewVars

ValidateNext ==
    \/ CallValidateSettings
    \/ GeoReturn

SpecValidate == Init /\ [][ValidateNext]_vars

(***************************************************************************)
(* Properties of validateSettings                                          *)
(***************************************************************************)
\* the rules of the validator that the settings violate; a field of a
\* missing section is undefined and satisfies no rule
ViolatedRules(settings) ==
    LET needsText  == settings.type \in {"text", "combined"}
        needsImage == settings.type \in {"image", "combined"}
        text == settings.text
        image == settings.image
        position == settings.position
        InRange(c) == c.kind = "number" /\ c.v >= 0 /\ c.v <= 1000 IN
    {r \in {"type", "text.content", "text.size", "text.opacity", "image.imageData",
            "image.scale", "image.opacity", "position.preset", "position.custom"} :
        \/ r = "type" /\ settings.type \notin {"text", "image", "combined"}
        \/ r = "text.content" /\ needsText /\ (~text.present \/ text.content = "")
        \/ r = "text.size" /\ needsText
              /\ (~text.present \/ text.size < 8 \/ text.size > 500)
        \/ r = "text.opacity" /\ needsText
              /\ (~text.present \/ text.opacity < 0 \/ text.opacity > 100)
        \/ r = "image.imageData" /\ needsImage /\ (~image.present \/ ~image.imageData)
        \/ r = "image.scale" /\ needsImage
              /\ (~image.present \/ image.scale < 1 \/ image.scale > 500)
        \/ r = "image.opacity" /\ needsImage
              /\ (~image.present \/ image.opacity < 0 \/ image.opacity > 100)
        \/ r = "position.preset"
              /\ (~position.present \/ position.preset \notin Anchors \cup {"custom"})
        \/ r = "position.custom" /\ position.present /\ position.preset = "custom"
              /\ ~(InRange(position.x) /\ InRange(position.y))}

\* C11: validateSettings reports every violation: for {type:'text',
\* text:{content:'', size:1000, opacity:150}} (no other section) it returns
\* isValid false with at least 3 distinct messages, and in general isValid is
\* false exactly when a rule is violated and the errors hold at least one
\* distinct message per violated rule.
C11_ValidatorReportsAllViolations ==
    geoCall.fn = "validateSettings" =>
        LET settings == geoCall.settings
            validation == geoResult.validation
            distinct == Cardinality(Range(validation.errors)) IN
        /\ (/\ settings.type = "text"
            /\ settings.text = [present |-> TRUE, content |-> "", size |-> 1000,
                                opacity |-> 150]
            /\ ~settings.image.present
            /\ ~settings.position.present)
               => (~validation.isValid /\ distinct >= 3)
        /\ validation.isValid = (ViolatedRules(settings) = {})
        /\ distinct >= Cardinality(ViolatedRules(settings))

\* the messages of a validation that are about the position
PositionMessages(validation) ==
    {m \in Range(validation.errors) :
        Head(m) \in {"Invalid position preset", "Invalid position preset:",
                     "Custom position requires valid x and y coordinates",
                     "Custom position coordinates must be between 0 and 1000"}}

\* C12: for settings whose sections are all there, validateSettings reports
\* no position error exactly when the preset is one of the 9 anchors, or is
\* 'custom' with x and y numbers in [0,1000].
C12_PositionPresetRule ==
    (/\ geoCall.fn = "validateSettings"
     /\ geoCall.settings.text.present
     /\ geoCall.settings.image.present
     /\ geoCall.settings.position.present) =>
        LET position == geoCall.settings.position
            InRange(c) == c.kind = "number" /\ c.v >= 0 /\ c.v <= 1000 IN
        (PositionMessages(geoResult.validation) = {}) =
            (\/ position.preset \in Anchors
             \/ position.preset = "custom" /\ InRange(position.x) /\ InRange(position.y))

(***************************************************************************)
(* BatchProcessor (src/js/batchProcessor.js)                               *)
(* A settings object is held by reference; settingsHeap[1] is the object   *)
(* the caller handed to addToQueue.  processQueue is an async function:    *)
(* it gives up control at "await this.processImage(...)" and at            *)
(* "await this.delay(50)", where the other methods may run.                *)
(***************************************************************************)
LiveSettings == 1

\* what a source image handed to addToQueue may be: a loaded image, an image
\* object without imageData, or no object at all
SourceImageKinds == {"ok", "noImageData", "null"}

SettingsValues ==
    {[valid |-> TRUE, content |-> "wm"], [valid |-> TRUE, content |-> "edited"],
     [valid |-> FALSE, content |-> ""]}

\* the position in the queue of the item with this id, 0 if it is not there
IndexOfItem(q, id) ==
    IF \E i \in DOMAIN q : q[i].id = id
        THEN CHOOSE i \in DOMAIN q : q[i].id = id
        ELSE 0

\* addToQueue(images, settings): one clone of settings, held by every new item
AddToQueue ==
    /\ \E n \in 1..MaxImages : \E images \in [1..n -> SourceImageKinds] :
          LET clonedSettings == Len(settingsHeap) + 1
              queueItems == [i \in 1..n |->
                  [id |-> itemCounter + i, image |-> images[i],
                   settings |-> clonedSettings, status |-> "pending",
                   result |-> "null", error |-> "null"]] IN
          /\ itemCounter + n <= MaxQueueItems
          /\ settingsHeap' = Append(settingsHeap, settingsHeap[LiveSettings])
          /\ processingQueue' = processingQueue \o queueItems
          /\ itemCounter' = itemCounter + n
    /\ UNCHANGED <<isProcessing, shouldStop, results, errors, batchPc, batchIndex, inflight>>
    /\ UNCHANGED processQueueError
    /\ UNCHANGED <<renderVars, geoVars, appVars, templateVars>>
    /\ UNCHANGED previewVars

\* the caller changes the settings object it owns
EditLiveSettings ==
    /\ \E v \in SettingsValues :
          /\ v # settingsHeap[LiveSettings]
          /\ settingsHeap' = [settingsHeap EXCEPT ![LiveSettings] = v]
    /\ UNCHANGED <<processingQueue, isProcessing, shouldStop, results, errors, batchPc,
                   batchIndex, inflight, itemCounter>>
    /\ UNCHANGED processQueueError
    /\ UNCHANGED <<renderVars, geoVars, appVars, templateVars>>
    /\ UNCHANGED previewVars

\* a processQueue() that starts a run whatever isProcessing is
ProcessQueueWithoutGuard ==
    /\ IF processingQueue = <<>>
          THEN /\ processQueueError' = "No images in queue to process"
               /\ UNCHANGED <<isProcessing, shouldStop, results, errors, batchIndex, batchPc>>
          ELSE /\ processQueueError' = "none"
               /\ isProcessing' = TRUE
               /\ shouldStop' = FALSE
               /\ results' = <<>>
               /\ errors' = <<>>
               /\ batchIndex' = 1
               /\ batchPc' = "loop"
    /\ UNCHANGED <<processingQueue, settingsHeap, inflight, itemCounter>>
    /\ UNCHANGED <<renderVars, geoVars, appVars, templateVars>>
    /\ UNCHANGED previewVars

\* processQueue(), up to the first test of the loop condition; a call that
\* is rejected throws before the try block and changes nothing
ProcessQueue ==
    /\ IF isProcessing
          THEN /\ processQueueError' = "Already processing queue"
               /\ UNCHANGED <<isProcessing, shouldStop, results, errors, batchIndex, batchPc>>
          ELSE IF processingQueue = <<>>
          THEN /\ processQueueError' = "No images in queue to process"
               /\ UNCHANGED <<isProcessing, shouldStop, results, errors, batchIndex, batchPc>>
          ELSE /\ processQueueError' = "none"
               /\ isProcessing' = TRUE
               /\ shouldStop' = FALSE
               /\ results' = <<>>
               /\ errors' = <<>>
               /\ batchIndex' = 1
               /\ batchPc' = "loop"
    /\ UNCHANGED <<processingQueue, settingsHeap, inflight, itemCounter>>
    /\ UNCHANGED <<renderVars, geoVars, appVars, templateVars>>
    /\ UNCHANGED previewVars

\* processImage(sourceImage, settings) succeeds
ProcessImageSucceeds(image, settings) == image = "ok" /\ settings.valid

\* the loop exits: summary, onComplete, finally
ProcessQueueReturn ==
    /\ batchPc = "loop"
    /\ batchIndex > Len(processingQueue) \/ shouldStop
    /\ batchPc' = "finished"
    /\ isProcessing' = FALSE
    /\ UNCHANGED <<processingQueue, settingsHeap, shouldStop, results, errors, batchIndex,
                   inflight, itemCounter>>
    /\ UNCHANGED processQueueError
    /\ UNCHANGED <<renderVars, geoVars, appVars, templateVars>>
    /\ UNCHANGED previewVars

\* one iteration up to "await this.processImage(item.image, item.settings)".
\* With no image object, item.image.name throws in reportProgress and again
\* in the catch block of the iteration, after item.status = 'failed' and
\* before this.errors.push; the error leaves processQueue through its outer
\* catch and finally.
ProcessQueueItem ==
    /\ batchPc = "loop"
    /\ batchIndex <= Len(processingQueue) /\ ~shouldStop
    /\ LET item == processingQueue[batchIndex] IN
       IF item.image = "null"
          THEN /\ processingQueue' = [processingQueue EXCEPT
                      ![batchIndex].status = "failed",
                      ![batchIndex].error = "TypeError"]
               /\ batchPc' = "threw"
               /\ isProcessing' = FALSE
               /\ UNCHANGED inflight
          ELSE /\ processingQueue' = [processingQueue EXCEPT
                      ![batchIndex].status = "processing"]
               /\ inflight' = [id |-> item.id, image |-> item.image,
                               settings |-> item.settings,
                               ok |-> ProcessImageSucceeds(item.image,
                                                           settingsHeap[item.settings])]
               /\ batchPc' = "await"
               /\ UNCHANGED isProcessing
    /\ UNCHANGED <<settingsHeap, shouldStop, results, errors, batchIndex, itemCounter>>
    /\ UNCHANGED processQueueError
    /\ UNCHANGED <<renderVars, geoVars, appVars, templateVars>>
    /\ UNCHANGED previewVars

\* processImage settles: the rest of the iteration, through the delay and i++
ProcessImageSettles ==
    /\ batchPc = "await"
    /\ LET at == IndexOfItem(processingQueue, inflight.id)
           result == [id |-> inflight.id, settings |-> settingsHeap[inflight.settings]] IN
       IF inflight.ok
          THEN /\ processingQueue' =
                     IF at = 0 THEN processingQueue
                     ELSE [processingQueue EXCEPT ![at].status = "completed",
                                                  ![at].result = result]
               /\ results' = Append(results, result)
               /\ UNCHANGED errors
          ELSE /\ processingQueue' =
                     IF at = 0 THEN processingQueue
                     ELSE [processingQueue EXCEPT ![at].status = "failed",
                                                  ![at].error = "Failed to process"]
               /\ errors' = Append(errors, [image |-> inflight.id,
                                            error |-> "Failed to process"])
               /\ UNCHANGED results
    /\ inflight' = [id |-> 0]
    /\ batchIndex' = batchIndex + 1
    /\ batchPc' = "loop"
    /\ UNCHANGED <<settingsHeap, isProcessing, shouldStop, itemCounter>>
    /\ UNCHANGED processQueueError
    /\ UNCHANGED <<renderVars, geoVars, appVars, templateVars>>
    /\ UNCHANGED previewVars

\* stopProcessing()
StopProcessing ==
    /\ ~shouldStop
    /\ shouldStop' = TRUE
    /\ UNCHANGED <<processingQueue, settingsHeap, isProcessing, results, errors, batchPc,
                   batchIndex, inflight, itemCounter>>
    /\ UNCHANGED processQueueError
    /\ UNCHANGED <<renderVars, geoVars, appVars, templateVars>>
    /\ UNCHANGED previewVars

\* clearQueue()
ClearQueue ==
    /\ processingQueue # <<>> \/ results # <<>> \/ errors # <<>>
    /\ shouldStop' = (IF isProcessing THEN TRUE ELSE shouldStop)
    /\ processingQueue' = <<>>
    /\ results' = <<>>
    /\ errors' = <<>>
    /\ UNCHANGED <<settingsHeap, isProcessing, batchPc, batchIndex, inflight, itemCounter>>
    /\ UNCHANGED processQueueError
    /\ UNCHANGED <<renderVars, geoVars, appVars, templateVars>>
    /\ UNCHANGED previewVars

BatchNext ==
    \/ AddToQueue
    \/ EditLiveSettings
    \/ ProcessQueue
    \/ ProcessQueueItem
    \/ ProcessImageSettles
    \/ ProcessQueueReturn
    \/ StopProcessing
    \/ ClearQueue

SpecBatch == Init /\ [][BatchNext]_vars

(***************************************************************************)
(* Properties of the BatchProcessor                                        *)
(***************************************************************************)
\* C13: every queue item has its own settings object: no two queue items hold
\* the same object, and no queue item holds the caller's object.
C13_ItemsOwnTheirSettings ==
    \A i, j \in DOMAIN processingQueue :
        /\ processingQueue[i].settings # LiveSettings
        /\ i # j => processingQueue[i].settings # processingQueue[j].settings

\* the subsequence of a sequence whose elements satisfy Test
RECURSIVE SelectItems(_, _)
SelectItems(q, status) ==
    IF q = <<>> THEN <<>>
    ELSE (IF Head(q).status = status THEN <<Head(q)>> ELSE <<>>)
         \o SelectItems(Tail(q), status)

maxTemplates == 2

RECURSIVE TrimLeft(_)
TrimLeft(name) ==
    IF name # <<>> /\ Head(name) = " " THEN TrimLeft(Tail(name)) ELSE name

RECURSIVE TrimRight(_)
TrimRight(name) ==
    IF name # <<>> /\ name[Len(name)] = " "
        THEN TrimRight(SubSeq(name, 1, Len(name) - 1)) ELSE name

\* String.prototype.trim
Trim(name) == TrimRight(TrimLeft(name))

TemplateNames == {<<" ">>, <<"a">>, <<" ", "a", " ">>, <<"b">>, <<"c">>}

SingleSettings(type, size, imageData, preset) ==
    [type |-> type, text |-> [size |-> size, opacity |-> 80],
     image |-> [scale |-> 100, opacity |-> 80, imageData |-> imageData],
     position |-> [preset |-> preset]]

TemplateSettings ==
    {SingleSettings("text", 48, "none", "center"),
     SingleSettings("image", 48, "decoded", "center"),
     SingleSettings("text", 48, "none", "custom")}

\* JSON.parse(JSON.stringify(imageData))
JsonImageData(imageData) == IF imageData = "decoded" THEN "stripped" ELSE imageData

\* cloneSettings(settings): JSON.parse(JSON.stringify(settings))
cloneSettings(settings) ==
    IF "type" \in DOMAIN settings
        THEN [settings EXCEPT !.image.imageData = JsonImageData(@)]
        ELSE [settings EXCEPT !.watermarks =
                 [i \in DOMAIN @ |-> [@[i] EXCEPT !.imageData = JsonImageData(@)]]]

\* validateTemplateSettings(settings).isValid; the text, image and position
\* sections are checked where the settings have them
validateTemplateSettings(settings) ==
    /\ "type" \in DOMAIN settings
    /\ settings.type \in {"text", "image", "combined"}
    /\ "text" \in DOMAIN settings =>
          /\ settings.text.size >= 8 /\ settings.text.size <= 500
          /\ settings.text.opacity >= 0 /\ settings.text.opacity <= 100
    /\ "image" \in DOMAIN settings =>
          /\ settings.image.scale >= 1 /\ settings.image.scale <= 500
          /\ settings.image.opacity >= 0 /\ settings.image.opacity <= 100
    /\ "position" \in DOMAIN settings => settings.position.preset \in Anchors

\* insert a template into a list sorted by modified, newest first, behind
\* the templates that are as new (Array.prototype.sort is stable)
InsertByModified(sorted, t) ==
    LET behind == {i \in DOMAIN sorted : sorted[i].modified >= t.modified}
        k == Cardinality(behind) IN
    SubSeq(sorted, 1, k) \o <<t>> \o SubSeq(sorted, k + 1, Len(sorted))

RECURSIVE SortByModified(_)
SortByModified(ts) ==
    IF ts = <<>> THEN <<>>
    ELSE InsertByModified(SortByModified(SubSeq(ts, 1, Len(ts) - 1)), ts[Len(ts)])

\* the index of the first template whose id or name is the identifier, or 0
FindTemplate(ts, identifier) ==
    LET hits == {i \in DOMAIN ts : ts[i].id = identifier \/ ts[i].name = identifier} IN
    IF hits = {} THEN 0 ELSE CHOOSE i \in hits : \A j \in hits : i <= j

\* this.templates after saveTemplate has stored the template
StoreTemplate(ts, template) ==
    LET hits == {i \in DOMAIN ts : ts[i].name = template.name}
        existingIndex == IF hits = {} THEN 0 ELSE CHOOSE i \in hits : \A j \in hits : i <= j
        pushed == Append(ts, template) IN
    IF existingIndex > 0
        THEN [ts EXCEPT ![existingIndex] = [template EXCEPT !.id = ts[existingIndex].id]]
        ELSE IF Len(pushed) > maxTemplates
                THEN SubSeq(SortByModified(pushed), 1, maxTemplates)
                ELSE pushed

\* generateTemplateId(): 'tpl_' and a part that differs from call to call
generateTemplateId(n) == <<"t", "p", "l", "_">> \o [i \in 1..n |-> "x"]

\* TemplateManager.saveTemplate(name, settings), with the outcome of
\* localStorage.setItem chosen by the environment
SaveTemplateWith(name, settings, stored) ==
    LET cleanName == Trim(name)
        template == [id |-> generateTemplateId(templateIdCounter + 1), name |-> cleanName,
                     settings |-> cloneSettings(settings), modified |-> clock,
                     lastAccessed |-> -1]
        after == StoreTemplate(templates, template)
        at == FindTemplate(after, cleanName) IN
    IF cleanName = <<>> \/ ~validateTemplateSettings(settings)
        THEN /\ lastSave' = [called |-> TRUE, ok |-> FALSE, name |-> name,
                             settings |-> settings, id |-> <<>>]
             /\ UNCHANGED <<templates, templateIdCounter>>
        ELSE /\ templates' = after
             /\ templateIdCounter' = templateIdCounter + 1
             /\ lastSave' = [called |-> TRUE, ok |-> stored, name |-> name,
                             settings |-> settings,
                             id |-> IF at = 0 THEN template.id ELSE after[at].id]

SaveTemplate ==
    /\ templateIdCounter < MaxTemplateSaves
    /\ \E name \in TemplateNames, settings \in TemplateSettings, stored \in BOOLEAN :
          SaveTemplateWith(name, settings, stored)
    /\ UNCHANGED <<clock, notification>>
    /\ UNCHANGED <<renderVars, geoVars, appVars, batchVars>>
    /\ UNCHANGED previewVars

\* TemplateManager.loadTemplate(identifier): what it returns
loadTemplate(ts, identifier) ==
    LET at == FindTemplate(ts, identifier) IN
    IF at = 0 THEN [found |-> FALSE]
    ELSE [found |-> TRUE, id |-> ts[at].id, name |-> ts[at].name,
          settings |-> cloneSettings(ts[at].settings)]

\* TemplateManager.loadTemplate(identifier): what it does to the store
LoadTemplate ==
    /\ \E i \in DOMAIN templates :
          /\ templates[i].lastAccessed # clock
          /\ templates' = [templates EXCEPT ![i].lastAccessed = clock]
    /\ UNCHANGED <<clock, templateIdCounter, lastSave, notification>>
    /\ UNCHANGED <<renderVars, geoVars, appVars, batchVars>>
    /\ UNCHANGED previewVars

\* TemplateManager.deleteTemplate(identifier)
DeleteTemplate ==
    /\ \E i \in DOMAIN templates :
          templates' = SubSeq(templates, 1, i - 1) \o SubSeq(templates, i + 1, Len(templates))
    /\ lastSave' = [called |-> FALSE]
    /\ UNCHANGED <<clock, templateIdCounter, notification>>
    /\ UNCHANGED <<renderVars, geoVars, appVars, batchVars>>
    /\ UNCHANGED previewVars

\* a millisecond passes
Tick ==
    /\ clock < MaxClock
    /\ clock' = clock + 1
    /\ UNCHANGED <<templates, templateIdCounter, lastSave, notification>>
    /\ UNCHANGED <<renderVars, geoVars, appVars, batchVars>>
    /\ UNCHANGED previewVars

TemplateNext ==
    \/ SaveTemplate
    \/ LoadTemplate
    \/ DeleteTemplate
    \/ Tick

SpecTemplate == Init /\ [][TemplateNext]_vars

(***************************************************************************)
(* Properties of the TemplateManager                                       *)
(***************************************************************************)
\* C19: after saveTemplate(name, settings) has succeeded, the store holds a
\* template with the trimmed name, and loadTemplate by the returned id and by
\* that name both return settings equal to the ones saved, whatever the store
\* held before, a full store included.
C19_SaveThenLoad ==
    (lastSave.called /\ lastSave.ok) =>
        LET byId == loadTemplate(templates, lastSave.id)
            byName == loadTemplate(templates, Trim(lastSave.name)) IN
        /\ byId.found /\ byId.name = Trim(lastSave.name)
        /\ byId.settings = lastSave.settings
        /\ byName.found /\ byName.settings = lastSave.settings

(***************************************************************************)
(* Templates in the editing session (src/js/app.js)                        *)
(***************************************************************************)
\* the settings the session saves as a single-watermark template
SessionWatermarkSettings == SingleSettings("text", 48, "none", "center")

\* saveTemplate() of the single-watermark application class: the name comes
\* from a prompt, the settings are this.watermarkSettings
SaveSettingsTemplate ==
    /\ templateIdCounter < MaxTemplateSaves
    /\ \E name \in {<<"a">>} :
          /\ SaveTemplateWith(name, SessionWatermarkSettings, TRUE)
          /\ notification' = IF lastSave'.ok THEN "Template saved successfully!"
                             ELSE "Save Error"
    /\ UNCHANGED clock
    /\ UNCHANGED <<renderVars, geoVars, appVars, batchVars>>
    /\ UNCHANGED previewVars

\* the templateData WatermarkApp.saveTemplate builds from the session
TemplateData ==
    [watermarks |->
        [i \in DOMAIN watermarks |->
            LET w == wmHeap[watermarks[i]] IN
            [id |-> w.id, type |-> w.type, imageData |-> w.imageData,
             textObject |-> textHeap[w.text], transform |-> w.transform,
             zIndex |-> w.zIndex, scaling |-> w.scaling]],
     canvasBounds |-> canvasBounds,
     version |-> "2.0"]

\* WatermarkApp.saveTemplate(), with the content of the template name field
AppSaveTemplate ==
    /\ \E name \in {<<" ">>, <<"b">>} :
          IF Trim(name) = <<>>
             THEN /\ notification' = "Please enter a template name"
                  /\ UNCHANGED <<templates, templateIdCounter, lastSave>>
          ELSE IF watermarks = <<>>
             THEN /\ notification' = "No watermarks to save. Please add watermarks first."
                  /\ UNCHANGED <<templates, templateIdCounter, lastSave>>
          ELSE /\ SaveTemplateWith(Trim(name), TemplateData, TRUE)
               /\ notification' = IF lastSave'.ok THEN "Template saved"
                                  ELSE "Failed to save template"
    /\ UNCHANGED clock
    /\ UNCHANGED <<renderVars, geoVars, appVars, batchVars>>
    /\ UNCHANGED previewVars

\* the text object of the settings of a single-settings template
LegacyText(settings) == [size |-> Num(settings.text.size), content |-> "wm"]

\* the settings createWatermark reads from the settings of a template, whose
\* text object is the one at ref; the image object of a template has kept
\* its width and height
LegacySettings(settings, ref) ==
    LET isObject == settings.image.imageData \in {"decoded", "stripped"} IN
    [type |-> settings.type, size |-> Num(settings.text.size), text |-> ref,
     imageData |-> settings.image.imageData,
     imageWidth |-> IF isObject THEN Num(300) ELSE Num(0),
     imageHeight |-> IF isObject THEN Num(200) ELSE Num(0)]

\* the watermark objects loadSelectedTemplate builds from the watermarks of a
\* version 2.0 template: every one keeps its id, or gets the next one, and
\* holds a text object of its own, the one after the ref-th
RECURSIVE RestoreWatermarks(_, _, _)
RestoreWatermarks(data, counter, ref) ==
    IF data = <<>> THEN <<>>
    ELSE LET d == Head(data)
             id == IF d.id # 0 THEN d.id ELSE counter + 1
             next == IF id > counter THEN id ELSE counter
             watermark == [id |-> id, type |-> d.type, imageData |-> d.imageData,
                           text |-> ref + 1, transform |-> d.transform,
                           zIndex |-> IF d.zIndex # 0 THEN d.zIndex
                                      ELSE IF d.id # 0 THEN counter
                                      ELSE counter + 1,
                           scaling |-> d.scaling] IN
         <<watermark>> \o RestoreWatermarks(Tail(data), next, ref + 1)

\* loadSelectedTemplate(templateId)
LoadSelectedTemplate ==
    /\ \E i \in DOMAIN templates :
          LET template == loadTemplate(templates, templates[i].id)
              isVersion2 == "version" \in DOMAIN template.settings
              data == IF isVersion2 THEN template.settings.watermarks ELSE <<>>
              restored == RestoreWatermarks(data, 0, Len(textHeap))
              heap == wmHeap \o restored
              list == [k \in DOMAIN restored |-> Len(wmHeap) + k]
              texts == textHeap \o [k \in DOMAIN data |-> data[k].textObject]
              legacyTexts == Append(textHeap, LegacyText(template.settings)) IN
          /\ templates' = [templates EXCEPT ![i].lastAccessed = clock]
          /\ IF isVersion2
                THEN /\ Len(heap) <= MaxSessionWatermarks
                     /\ Len(texts) <= MaxSessionWatermarks + 1
                     /\ wmHeap' = heap
                     /\ textHeap' = UpdatePreviewTexts(sourceImages, currentImageIndex,
                                                       texts, heap, SortControls(heap, list))
                     /\ watermarks' = SortControls(heap, list)
                     /\ watermarkIdCounter' = MaxOf(0, {restored[k].id : k \in DOMAIN restored})
                     /\ selectedWatermarkId' = IF restored = <<>> THEN 0 ELSE restored[1].id
                     /\ watermarkSettings' = IF restored = <<>> THEN watermarkSettings
                                             ELSE [text |-> restored[1].text]
                     /\ canvasBounds' =
                           UpdatePreviewBounds(sourceImages, currentImageIndex, zoom,
                                               template.settings.canvasBounds)
                ELSE /\ Len(textHeap) < MaxSessionWatermarks
                     /\ watermarkSettings' = [text |-> Len(legacyTexts)]
                     /\ IF /\ currentImageIndex >= 0
                           /\ canvasBounds.width # Num(0) /\ canvasBounds.height # Num(0)
                           THEN /\ Len(wmHeap) < MaxSessionWatermarks
                                /\ AddWatermarkTo(LegacySettings(template.settings,
                                                                 Len(legacyTexts)),
                                                  <<>>, 0)
                                /\ textHeap' =
                                      UpdatePreviewTexts(sourceImages, currentImageIndex,
                                                         legacyTexts, wmHeap', watermarks')
                                /\ canvasBounds' =
                                      UpdatePreviewBounds(sourceImages, currentImageIndex,
                                                          zoom, canvasBounds)
                           ELSE /\ watermarks' = <<>>
                                /\ selectedWatermarkId' = 0
                                /\ watermarkIdCounter' = 0
                                /\ textHeap' = legacyTexts
                                /\ UNCHANGED <<wmHeap, canvasBounds>>
    /\ notification' = "Loaded template"
    /\ UNCHANGED <<sourceImages, currentImageIndex, zoom>>
    /\ UNCHANGED <<clock, templateIdCounter, lastSave>>
    /\ UNCHANGED <<resizeCount, renderVars, geoVars, batchVars>>
    /\ UNCHANGED previewVars

SessionNext ==
    \/ AddSourceImage
    \/ ClickSourceImage
    \/ AddWatermark
    \/ DeleteWatermark
    \/ SaveSettingsTemplate
    \/ AppSaveTemplate
    \/ LoadSelectedTemplate

SpecSession == Init /\ [][SessionNext]_vars

ScalingNext ==
    \/ AddSourceImage
    \/ AddWatermark
    \/ ResizeWatermark

SpecScaling == Init /\ [][ScalingNext]_vars

(***************************************************************************)
(* Properties of the session: ids, font size, aspect ratio, templates      *)
(***************************************************************************)
\* C15: a watermark created in a step gets an id greater than the id of
\* every watermark created earlier in the session, and no two watermarks of
\* the current list share an id.
C15_IdsIncreaseAndAreUnique ==
    [][/\ \A r \in DOMAIN wmHeap' \ DOMAIN wmHeap :
             \A q \in DOMAIN wmHeap : wmHeap'[r].id > wmHeap[q].id
       /\ \A i, j \in DOMAIN watermarks' :
             i # j => wmHeap'[watermarks'[i]].id # wmHeap'[watermarks'[j]].id]_vars

\* the font size the creation-time scaling state gives for a container
FontSizeFor(scaling, width, height) ==
    Clamp(RMul(scaling.baseFontSize,
               RMin(RDiv(width, scaling.baseWidth), RDiv(height, scaling.baseHeight))),
          Num(minFontSize), Num(maxFontSize))

\* C16: the dynamic font size of every text watermark is
\* clamp(baseFontSize * min(width/baseWidth, height/baseHeight), 8, 200) for
\* its current container, whatever its text object holds; baseFontSize,
\* baseWidth and baseHeight are the values of its creation (the font size
\* its settings held then, 200 and 60) and never change.
C16_DynamicFontSize ==
    [][\A r \in DOMAIN wmHeap' :
          LET w == wmHeap'[r] IN
          w.type = "text" =>
             /\ \A texts \in {textHeap, textHeap'} :
                   calculateDynamicFontSize(w, texts) =
                      FontSizeFor(w.scaling, w.transform.width, w.transform.height)
             /\ w.scaling.baseWidth = Num(200) /\ w.scaling.baseHeight = Num(60)
             /\ w.scaling.baseFontSize =
                   IF r \in DOMAIN wmHeap THEN wmHeap[r].scaling.baseFontSize
                   ELSE textHeap[w.text].size]_vars

\* a text watermark has been resized twice, back to the box of its creation:
\* its dynamic font size is the one it was created with, while another text
\* watermark has left another size in the text object they share
C16_Witness ==
    /\ resizeCount = MaxResizes
    /\ \E r, q \in DOMAIN wmHeap :
        /\ r # q
        /\ wmHeap[r].type = "text" /\ wmHeap[q].type = "text"
        /\ wmHeap[r].text = wmHeap[q].text
        /\ wmHeap[r].transform.width # wmHeap[q].transform.width
        /\ calculateDynamicFontSize(wmHeap[r], textHeap)
              # calculateDynamicFontSize(wmHeap[q], textHeap)

\* C17: when the box of an image watermark with maintainAspectRatio and a
\* known aspectRatio is resized, transform.width / transform.height is that
\* aspect ratio afterwards.
C17_AspectRatioMaintained ==
    [][\A r \in DOMAIN wmHeap :
          LET w == wmHeap[r]
              v == wmHeap'[r] IN
          (/\ w.type = "image"
           /\ w.scaling.maintainAspectRatio
           /\ w.scaling.aspectRatio # Num(0)
           /\ (v.transform.width # w.transform.width
               \/ v.transform.height # w.transform.height))
             => v.transform.width = RMul(v.transform.height, w.scaling.aspectRatio)]_vars

\* C18: once WatermarkApp.saveTemplate has run in a session with at least one
\* watermark and a non-empty name, the store holds a template of that name
\* with all the watermarks of the session, and loading it gives as many
\* watermarks with the same transforms and zIndex values.
C18_SessionTemplateStored ==
    (lastSave.called /\ "version" \in DOMAIN lastSave.settings) =>
        LET loaded == loadTemplate(templates, Trim(lastSave.name))
            saved == lastSave.settings.watermarks IN
        /\ loaded.found
        /\ "version" \in DOMAIN loaded.settings
        /\ LET restored == RestoreWatermarks(loaded.settings.watermarks, 0, 0) IN
           /\ Len(restored) = Len(saved)
           /\ \A k \in DOMAIN saved :
                 /\ restored[k].transform = saved[k].transform
                 /\ restored[k].zIndex = saved[k].zIndex

(***************************************************************************)
(* The settings panel.  Of watermark.settings and this.watermarkSettings   *)
(* the model keeps the text object, which the spread copies of             *)
(* createWatermark, selectWatermark and updateSelectedWatermarkSettings    *)
(* hand on by reference.                                                   *)
(***************************************************************************)
\* selectWatermark(id), from a click in the list of watermarks or a mouse
\* down on an overlay
SelectWatermark ==
    /\ \E i \in DOMAIN watermarks :
          LET watermark == wmHeap[watermarks[i]] IN
          /\ selectedWatermarkId' = watermark.id
          /\ watermarkSettings' = [text |-> watermark.text]
    /\ watermarks' = SortControls(wmHeap, watermarks)
    /\ UNCHANGED <<sourceImages, currentImageIndex, zoom, canvasBounds, wmHeap, textHeap,
                   watermarkIdCounter>>
    /\ UNCHANGED <<resizeCount, renderVars, geoVars, batchVars, templateVars>>
    /\ UNCHANGED previewVars

\* what the inputs of the text settings write: a content, a size
TextEdits == {[field |-> "content", content |-> "edited", size |-> Num(0)],
              [field |-> "size", content |-> "", size |-> Num(24)]}

\* this.watermarkSettings.text.content = e.target.value, or
\* this.watermarkSettings.text.size = parseInt(e.target.value)
EditedTexts(texts, ref, edit) ==
    IF edit.field = "content" THEN [texts EXCEPT ![ref].content = edit.content]
    ELSE [texts EXCEPT ![ref].size = edit.size]

\* an input handler of setupTextSettingsListeners, with its
\* updateSelectedWatermarkSettings and the updatePreview that follows
EditText ==
    /\ \E edit \in TextEdits :
          LET texts == EditedTexts(textHeap, watermarkSettings.text, edit)
              found == {r \in Range(watermarks) : wmHeap[r].id = selectedWatermarkId} IN
          IF selectedWatermarkId # 0 /\ found # {}
             THEN LET r == CHOOSE q \in found : TRUE
                      heap == [wmHeap EXCEPT ![r].text = watermarkSettings.text] IN
                  /\ wmHeap' = heap
                  /\ textHeap' = UpdatePreviewTexts(sourceImages, currentImageIndex,
                                                    texts, heap, watermarks)
                  /\ canvasBounds' = UpdatePreviewBounds(sourceImages, currentImageIndex,
                                                         zoom, canvasBounds)
             ELSE /\ textHeap' = texts
                  /\ UNCHANGED <<wmHeap, canvasBounds>>
    /\ UNCHANGED <<sourceImages, currentImageIndex, zoom, watermarks, selectedWatermarkId,
                   watermarkIdCounter, watermarkSettings>>
    /\ UNCHANGED <<resizeCount, renderVars, geoVars, batchVars, templateVars>>
    /\ UNCHANGED previewVars

SettingsNext ==
    \/ AddSourceImage
    \/ AddWatermark
    \/ SelectWatermark
    \/ EditText
    \/ ResizeWatermark

SpecSettings == Init /\ [][SettingsNext]_vars

\* watermark.settings.text of the watermark at r, by value
TextSettingsOf(heap, texts, r) == texts[heap[r].text]

\* C27: an edit of the text settings of the selected watermark, or a resize
\* of it, leaves the text settings of every other watermark of the list as
\* they were, also those of a watermark added while another was selected.
C27_SettingsNotShared ==
    [][(/\ EditText \/ ResizeWatermark
        /\ selectedWatermarkId # 0
        /\ \A r \in DOMAIN wmHeap :
              wmHeap'[r].transform # wmHeap[r].transform
                 => wmHeap[r].id = selectedWatermarkId)
       => \A r \in Range(watermarks) :
             wmHeap[r].id # selectedWatermarkId
                => TextSettingsOf(wmHeap', textHeap', r)
                      = TextSettingsOf(wmHeap, textHeap, r)]_vars

(***************************************************************************)
(* The settings handed to the batch: getWatermarkSettingsFromTransform     *)
(***************************************************************************)
\* toSettingsFromWatermark(wm), in the shape validateSettings reads
toSettingsFromWatermark(wm, texts, cb) ==
    LET cx == RAdd(wm.transform.x, Half(wm.transform.width))
        cy == RAdd(wm.transform.y, Half(wm.transform.height))
        canvasWidth == IF cb.width = Num(0) THEN Num(800) ELSE cb.width
        canvasHeight == IF cb.height = Num(0) THEN Num(600) ELSE cb.height
        hasElement == wm.imageData = "decoded"
        scale == RMin(RDiv(wm.transform.width, Num(300)),
                      RDiv(wm.transform.height, Num(200)))
        percent == RRound(RMul(scale, Num(100))).n IN
    [type |-> wm.type,
     text |-> [present |-> TRUE, content |-> texts[wm.text].content,
               size |-> IF wm.type = "text"
                           THEN RRound(calculateDynamicFontSize(wm, texts)).n
                           ELSE RRound(texts[wm.text].size).n,
               opacity |-> 80],
     image |-> [present |-> TRUE, imageData |-> wm.imageData # "none",
                scale |-> IF wm.type = "image" /\ hasElement
                             THEN (IF percent > 500 THEN 500
                                   ELSE IF percent < 1 THEN 1 ELSE percent)
                             ELSE 100,
                opacity |-> 80],
     position |-> [present |-> TRUE, preset |-> "custom",
                   x |-> Coordinate("number",
                            RRound(RMul(RDiv(cx, canvasWidth), Num(1000))).n),
                   y |-> Coordinate("number",
                            RRound(RMul(RDiv(cy, canvasHeight), Num(1000))).n)]]

\* getWatermarkSettingsFromTransform() of a session with watermarks: one
\* settings object per watermark
getWatermarkSettingsFromTransform ==
    [i \in DOMAIN watermarks |->
        toSettingsFromWatermark(wmHeap[watermarks[i]], textHeap, canvasBounds)]

\* C28: every settings object of getWatermarkSettingsFromTransform passes
\* the validateSettings that knows custom positions, and has the preset
\* 'custom' with x and y between 0 and 1000, after any sequence of adding,
\* dragging, zooming and switching the image.
C28_ExportedSettingsValid ==
    \A i \in DOMAIN getWatermarkSettingsFromTransform :
        LET settings == getWatermarkSettingsFromTransform[i] IN
        /\ validateSettings("transform", settings).isValid
        /\ settings.position.preset = "custom"
        /\ settings.position.x.v >= 0 /\ settings.position.x.v <= 1000
        /\ settings.position.y.v >= 0 /\ settings.position.y.v <= 1000

\* renderTextWatermark(ctx, watermark): the font size it paints with on the
\* interactive canvas
renderTextWatermarkFontSize(watermark, texts) ==
    RMax(Num(8), RMin(calculateDynamicFontSize(watermark, texts),
                      RMul(watermark.transform.height, Rat(7, 10))))

\* applyTextWatermark(ctx, settings, bounds, scaleFactor) of src/README.md:
\* the font size it paints with, text.size * scaleFactor
applyTextWatermarkFontSize(settings, scaleFactor) ==
    RMul(Num(settings.text.size), scaleFactor)

\* generateWatermarkedImageMultiple(sourceImageData, watermarks): the font
\* size of the i-th watermark on the full-resolution canvas; every
\* applyWatermark call is given the scale factor 1
ExportedFontSize(i) ==
    applyTextWatermarkFontSize(getWatermarkSettingsFromTransform[i], Num(1))

\* the width of the output, the source image, over the width of the
\* interactive canvas
OutputScale == RDiv(sourceImages[currentImageIndex + 1].width, canvasBounds.width)

\* C30: a text watermark is painted on the output with OutputScale times the
\* font size it is painted with on the interactive canvas.
C30_ExportedFontSizeScales ==
    currentImageIndex >= 0 =>
        \A i \in DOMAIN watermarks :
            LET watermark == wmHeap[watermarks[i]] IN
            watermark.type = "text" =>
                ExportedFontSize(i)
                    = RMul(OutputScale, renderTextWatermarkFontSize(watermark, textHeap))

(***************************************************************************)
(* The composite passes, render by render.  A pass walks a sorted copy of  *)
(* the list; the render of a text watermark paints at once, the render of  *)
(* an image watermark paints when its raster has been decoded, in a later  *)
(* task, and handlers run between the two.  The watermark objects of the   *)
(* copy are the live ones: a paint reads the transform of its moment.      *)
(***************************************************************************)
\* the passes that may be in flight at a time
MaxPasses == 2

\* [...this.watermarks].sort((a, b) => a.zIndex - b.zIndex): stable
RECURSIVE InsertByZAscending(_, _, _)
InsertByZAscending(heap, sorted, r) ==
    IF sorted = <<>> THEN <<r>>
    ELSE IF heap[sorted[Len(sorted)]].zIndex <= heap[r].zIndex THEN Append(sorted, r)
    ELSE Append(InsertByZAscending(heap, SubSeq(sorted, 1, Len(sorted) - 1), r),
                sorted[Len(sorted)])

RECURSIVE SortForRender(_, _)
SortForRender(heap, list) ==
    IF list = <<>> THEN <<>>
    ELSE InsertByZAscending(heap, SortForRender(heap, SubSeq(list, 1, Len(list) - 1)),
                            list[Len(list)])

\* a pass over list, none of whose renders has begun
CompositePass(kind, list) ==
    [kind |-> kind, list |-> list, started |-> 0, completed |-> {}]

\* a compositor that begins every render without awaiting the one before
MayBeginNextWithoutAwait(pass) == pass.started < Len(pass.list)

\* for (const watermark of sorted) { await this.renderSingleWatermark(...) }:
\* the next render begins when every render begun so far has completed
MayBeginNext(pass) ==
    /\ pass.started < Len(pass.list)
    /\ pass.completed = 1..pass.started

\* the renders of the pass that have begun and wait for their raster
Pending(pass) == (1..pass.started) \ pass.completed

Finished(pass) == pass.started = Len(pass.list) /\ Pending(pass) = {}

\* what a render leaves on the canvas
Paint(watermark) == [id |-> watermark.id, transform |-> watermark.transform]

\* only the pass of updatePreview paints on the preview canvas
PaintedBy(pass, watermark, canvas) ==
    IF pass.kind = "renderWatermarksOnCanvas" THEN Append(canvas, Paint(watermark))
    ELSE canvas

\* the pass runs until a render has to wait or the list is done
RECURSIVE RunPass(_, _, _)
RunPass(pass, heap, canvas) ==
    IF ~MayBeginNext(pass) THEN [pass |-> pass, canvas |-> canvas]
    ELSE LET k == pass.started + 1
             watermark == heap[pass.list[k]] IN
         IF watermark.type = "image"
            THEN RunPass([pass EXCEPT !.started = k], heap, canvas)
            ELSE RunPass([pass EXCEPT !.started = k, !.completed = @ \cup {k}],
                         heap, PaintedBy(pass, watermark, canvas))

\* passes with the i-th one replaced by pass, or dropped if it has finished
Settled(i, pass) ==
    IF Finished(pass)
       THEN SubSeq(passes, 1, i - 1) \o SubSeq(passes, i + 1, Len(passes))
       ELSE [passes EXCEPT ![i] = pass]

\* updatePreview() at the end of a handler, from the new state of the
\* session: the canvas is cleared and a pass begins
UpdatePreviewBegins ==
    IF currentImageIndex' < 0 THEN UNCHANGED previewVars
    ELSE LET run == RunPass(CompositePass("renderWatermarksOnCanvas",
                                          SortForRender(wmHeap', watermarks')),
                            wmHeap', <<>>) IN
         /\ previewCanvas' = run.canvas
         /\ passes' = IF Finished(run.pass) THEN passes ELSE Append(passes, run.pass)

\* a drag of a watermark and the refresh of the canvas it asks for
DragAndPreview ==
    /\ Len(passes) < MaxPasses
    /\ handleWatermarkDrag
    /\ UpdatePreviewBegins

\* the deletion of a watermark and the refresh of the canvas it asks for
DeleteAndPreview ==
    /\ Len(passes) < MaxPasses
    /\ deleteWatermark
    /\ UpdatePreviewBegins

\* applyWatermarks(targetCtx, watermarks, bounds, scaleFactor) of the engine,
\* called with the watermarks of the session on a canvas of the caller, who
\* awaits it before calling again
CallApplyWatermarks ==
    /\ Len(passes) < MaxPasses
    /\ \A i \in DOMAIN passes : passes[i].kind # "applyWatermarks"
    /\ watermarks # <<>>
    /\ LET run == RunPass(CompositePass("applyWatermarks",
                                        SortForRender(wmHeap, watermarks)),
                          wmHeap, previewCanvas) IN
       /\ ~Finished(run.pass)
       /\ passes' = Append(passes, run.pass)
    /\ UNCHANGED previewCanvas
    /\ UNCHANGED <<renderVars, geoVars, appVars, batchVars, templateVars>>

\* img.onload of a render that waits: it paints and its pass goes on
ImageDecoded ==
    /\ \E i \in DOMAIN passes :
          \E k \in Pending(passes[i]) :
             LET pass == passes[i]
                 watermark == wmHeap[pass.list[k]]
                 run == RunPass([pass EXCEPT !.completed = @ \cup {k}], wmHeap,
                                PaintedBy(pass, watermark, previewCanvas)) IN
             /\ previewCanvas' = run.canvas
             /\ passes' = Settled(i, run.pass)
    /\ UNCHANGED <<renderVars, geoVars, appVars, batchVars, templateVars>>

\* the session gets its image
AddFirstSourceImage == sourceImages = <<>> /\ AddSourceImage

\* the passes of a session whose watermarks are dragged
PassesNext ==
    \/ AddFirstSourceImage
    \/ AddWatermark
    \/ DragAndPreview
    \/ CallApplyWatermarks
    \/ ImageDecoded

SpecPasses == Init /\ [][PassesNext]_vars

\* the preview canvas of a session whose watermarks are dragged and deleted
PreviewNext ==
    \/ AddFirstSourceImage
    \/ AddWatermark
    \/ DragAndPreview
    \/ DeleteAndPreview
    \/ ImageDecoded

SpecPreview == Init /\ [][PreviewNext]_vars

\* C22: in every composite pass in flight, every render but the one begun
\* last has completed: the render of a watermark begins only when the
\* renders of all the watermarks before it in the pass have completed.
C22_RendersAreSequential ==
    \A i \in DOMAIN passes :
        /\ Cardinality(Pending(passes[i])) <= 1
        /\ Pending(passes[i]) \subseteq {passes[i].started}

\* a pass over two image watermarks has completed the render of the first
\* and waits for the raster of the second
C22_Witness ==
    \E i \in DOMAIN passes :
        /\ Len(passes[i].list) = 2
        /\ \A k \in 1..2 : wmHeap[passes[i].list[k]].type = "image"
        /\ passes[i].started = 2
        /\ passes[i].completed = {1}

\* C25: once no pass is in flight, the preview canvas holds no watermark
\* twice, and every paint on it is the paint of a watermark of the list at
\* the transform the watermark has now.
C25_PreviewNotCorrupted ==
    (\A i \in DOMAIN passes : passes[i].kind # "renderWatermarksOnCanvas") =>
        /\ \A j, k \in DOMAIN previewCanvas :
              previewCanvas[j].id = previewCanvas[k].id => j = k
        /\ \A k \in DOMAIN previewCanvas :
              \E r \in Range(watermarks) : previewCanvas[k] = Paint(wmHeap[r])

(***************************************************************************)
(* calculatePosition as a call: the try block and its catch.  An argument  *)
(* is <<v>> for the value v and <<>> for undefined.                        *)
(***************************************************************************)
Undefined == <<>>

\* the destructuring at the head of the try block throws for an undefined
\* bounds or watermarkSize, and in src/js/watermarkEngine.js for an undefined
\* positionSettings; src/README.md destructures positionSettings || {}
ComputationFails(e, pos, b, wm) ==
    \/ e = "legacy" /\ pos = Undefined
    \/ b = Undefined
    \/ wm = Undefined

\* calculatePosition(positionSettings, bounds, watermarkSize, isPreview,
\* scaleFactor): what the call does, a return or a throw
calculatePositionCall(e, pos, b, wm, sf) ==
    IF ~ComputationFails(e, pos, b, wm)
        THEN LET position == IF pos = Undefined
                             THEN [preset |-> "undefined", x |-> Num(0), y |-> Num(0)]
                             ELSE pos[1] IN
             [outcome |-> "returned",
              pos |-> calculatePosition(e, position, b[1], wm[1], sf)]
    ELSE IF b = Undefined
        THEN [outcome |-> "threw"]
    ELSE [outcome |-> "returned",
          pos |-> [x |-> RAdd(b[1].x, Half(b[1].width)),
                   y |-> RAdd(b[1].y, Half(b[1].height)),
                   scaleFactor |-> Num(1)]]

OptionalPositions ==
    {Undefined} \cup
    {<<[preset |-> preset, x |-> Num(o), y |-> Num(o)]>> :
        preset \in {"top-left", "center", "custom"}, o \in {0, 500}}

OptionalBounds == {Undefined} \cup {<<b>> : b \in GeoBounds}

OptionalSizes == {Undefined} \cup {<<wm>> : wm \in GeoSizes}

CallCalculatePositionWith ==
    /\ geoCall.fn = "none"
    /\ \E e \in Engines, pos \in OptionalPositions, b \in OptionalBounds,
          wm \in OptionalSizes, sf \in GeoScales :
          /\ geoCall' = [fn |-> "calculatePositionCall", engine |-> e, position |-> pos,
                         bounds |-> b, watermarkSize |-> wm, scaleFactor |-> sf]
          /\ geoResult' = [fn |-> "calculatePositionCall",
                           call |-> calculatePositionCall(e, pos, b, wm, sf)]
    /\ UNCHANGED <<renderVars, appVars, batchVars, templateVars>>
    /\ UNCHANGED previewVars

PositionCallNext ==
    \/ CallCalculatePositionWith
    \/ GeoReturn

SpecPositionCall == Init /\ [][PositionCallNext]_vars

SpecRenderLive == SpecRender /\ WF_vars(RenderNext) /\ WF_vars(PassReturn)

\* C21: a composite pass that has started eventually returns or throws,
\* also when the raster of one of its image watermarks fails to decode: no
\* render stays suspended for ever.
C21_ImageRenderCompletes == (pc = "loop") ~> (pc \in {"returned", "threw"})

(***************************************************************************)
(* The BatchProcessor while a run is in flight                             *)
(***************************************************************************)
\* the ids of the items of the queue
QueuedIds == {processingQueue[i].id : i \in DOMAIN processingQueue}

\* C23: a step that empties the queue (clearQueue) leaves results and errors
\* empty, and no result or error belongs to an item that is not in the
\* queue: an item removed by clearQueue never appears in results or errors.
C23_ClearedItemsStayCleared ==
    /\ [][(processingQueue # <<>> /\ processingQueue' = <<>>)
             => (results' = <<>> /\ errors' = <<>>)]_vars
    /\ [](/\ \A i \in DOMAIN results : results[i].id \in QueuedIds
          /\ \A i \in DOMAIN errors : errors[i].image \in QueuedIds)

\* a run of processQueue is in flight
RunInFlight == batchPc \in {"loop", "await"}

\* C29: isProcessing is true exactly while a run of processQueue is in
\* flight, and a call of processQueue made while isProcessing is true is
\* rejected with 'Already processing queue' and changes nothing of the run
\* in flight.
C29_OneRunAtATime ==
    /\ [](isProcessing <=> RunInFlight)
    /\ [][(isProcessing /\ ProcessQueue) =>
             /\ processQueueError' = "Already processing queue"
             /\ UNCHANGED <<processingQueue, results, errors, isProcessing, shouldStop,
                            batchPc, batchIndex, inflight>>]_vars

\* a call of processQueue has been rejected while an item of the run in
\* flight was being processed, after an earlier item had completed
C29_Witness ==
    /\ processQueueError = "Already processing queue"
    /\ isProcessing
    /\ batchPc = "await"
    /\ results # <<>>

(***************************************************************************)
(* The box of a watermark under resizes                                    *)
(***************************************************************************)
\* C24: every watermark of the session, created 200x60 or 150x100, is at
\* least 50 wide and 25 high after any sequence of resizes through the four
\* corner handles.
C24_MinimumBoxSize ==
    \A r \in DOMAIN wmHeap :
        /\ ~RLt(wmHeap[r].transform.width, Num(50))
        /\ ~RLt(wmHeap[r].transform.height, Num(25))

\* a watermark has been resized down to the minimum box
C24_Witness ==
    /\ resizeCount > 0
    /\ \E r \in DOMAIN wmHeap :
          /\ wmHeap[r].transform.width = Num(50)
          /\ wmHeap[r].transform.height = Num(25)

(***************************************************************************)
(* The watermark lists of the source images                                *)
(***************************************************************************)
ImagesNext ==
    \/ AddSourceImage
    \/ ClickSourceImage
    \/ RemoveSourceImage
    \/ AddWatermark
    \/ DeleteWatermark

SpecImages == Init /\ [][ImagesNext]_vars

\* the watermarks of the image at a 0-based index: the live list of the
\* session for the selected image, the list saved with the image otherwise
WatermarksOf(imgs, current, live, i) ==
    IF i = current THEN Range(live) ELSE Range(imgs[i + 1].watermarks)

\* C26: selecting, adding or removing a source image leaves the watermarks
\* of every image that stays in the list as they were: no image gets the
\* watermarks of another one and none loses its own.
C26_WatermarksStayWithTheirImage ==
    [][/\ (AddSourceImage \/ ClickSourceImage) =>
             \A i \in 0..(Len(sourceImages) - 1) :
                 WatermarksOf(sourceImages', currentImageIndex', watermarks', i)
                    = WatermarksOf(sourceImages, currentImageIndex, watermarks, i)
       /\ \A index \in 0..(Len(sourceImages) - 1) :
             RemoveSourceImageAt(index) =>
                \A i \in 0..(Len(sourceImages) - 1) \ {index} :
                    WatermarksOf(sourceImages', currentImageIndex', watermarks',
                                 IF i > index THEN i - 1 ELSE i)
                       = WatermarksOf(sourceImages, currentImageIndex, watermarks, i)]_vars

====
